---- MODULE Spec2Model ----
(***************************************************************************)
(* A model of the tunisia-flights-scraper service: the FastAPI lifespan    *)
(* that schedules one cron job per carrier (app/main.py), the backend      *)
(* client with its chunked, retried reporting (backend_api_client.py), the *)
(* Nouvelair scraper (nouvelair_scraper_service.py) and the Tunisair       *)
(* scraper (tunisair_scraper_service.py).                                  *)
(*                                                                         *)
(* Units.  Amounts of money are integers in thousandths of the currency    *)
(* unit (123.45 EUR is 123450).  Exchange rates are integers in ten-       *)
(* thousandths (0.29 is 2900).  Delays are integers in milliseconds.       *)
(* Strings that the code takes apart (price texts, date strings) are       *)
(* sequences of one-character strings.                                     *)
(***************************************************************************)
EXTENDS Integers, Sequences, FiniteSets, TLC

(***************************************************************************)
(* Bounds of the model.                                                    *)
(***************************************************************************)
\* Scheduled triggers of one carrier's job that a behaviour follows.
MaxRuns == 2
\* Failing responses the environment gives in one behaviour of a scraper.
MaxFaults == 3
\* Upstream responses that carry fare data in one behaviour of a scraper.
MaxData == 2
\* Cron firings, of both jobs together, that a behaviour follows.
MaxTriggers == 2
\* Failing and fare-carrying responses in one behaviour of the whole service.
ServiceFaults == 3
ServiceData == 1
\* The same, for a Tunisair job over the twelve predefined routes.
StaticFaults == 1
StaticData == 1
\* Largest batch handed to the reporting client on its own, in chunks.
MaxChunks == 3
\* failing POSTs of one call of report_scraped_data
ReportFaults == 4

(***************************************************************************)
(* Program constants.                                                      *)
(***************************************************************************)
POST_CHUNK_SIZE == 150
REQUEST_RETRIES == 3
TUNISAIR_REQUEST_RETRIES == 3
MONTHS_TO_SEARCH == 4
\* self.fallback_eur_rate = 0.29, in ten-thousandths.
fallback_eur_rate == 2900
\* AIRLINE_CODE of the two scraper modules; they also name the two jobs.
NOUVELAIR == "BJ"
TUNISAIR == "TU"
Carriers == {NOUVELAIR, TUNISAIR}

Other(c) == IF c = NOUVELAIR THEN TUNISAIR ELSE NOUVELAIR

(***************************************************************************)
(* Text helpers: str.replace, "in", str.strip and float() on the texts the *)
(* extractors take apart.                                                  *)
(***************************************************************************)
DigitChars == {"0", "1", "2", "3", "4", "5", "6", "7", "8", "9"}

DigitVal(ch) ==
    CASE ch = "0" -> 0 [] ch = "1" -> 1 [] ch = "2" -> 2 [] ch = "3" -> 3
      [] ch = "4" -> 4 [] ch = "5" -> 5 [] ch = "6" -> 6 [] ch = "7" -> 7
      [] ch = "8" -> 8 [] ch = "9" -> 9

AllDigits(s) == \A i \in 1..Len(s) : s[i] \in DigitChars

RECURSIVE DigitsValue(_)
DigitsValue(s) ==
    IF s = <<>> THEN 0
    ELSE DigitsValue(SubSeq(s, 1, Len(s) - 1)) * 10 + DigitVal(s[Len(s)])

IsPrefix(p, s) == Len(p) <= Len(s) /\ SubSeq(s, 1, Len(p)) = p

\* sub in s
Contains(s, sub) ==
    \E i \in 1..(Len(s) - Len(sub) + 1) : SubSeq(s, i, i + Len(sub) - 1) = sub

\* s.replace(old, new): every non-overlapping occurrence, left to right.
RECURSIVE StrReplace(_, _, _)
StrReplace(s, old, new) ==
    IF s = <<>> THEN <<>>
    ELSE IF IsPrefix(old, s)
         THEN new \o StrReplace(SubSeq(s, Len(old) + 1, Len(s)), old, new)
         ELSE <<Head(s)>> \o StrReplace(Tail(s), old, new)

RECURSIVE LStrip(_)
LStrip(s) == IF s # <<>> /\ Head(s) = " " THEN LStrip(Tail(s)) ELSE s

RECURSIVE RStrip(_)
RStrip(s) ==
    IF s # <<>> /\ s[Len(s)] = " " THEN RStrip(SubSeq(s, 1, Len(s) - 1)) ELSE s

Strip(s) == LStrip(RStrip(s))

Pow10(n) == CASE n = 0 -> 1 [] n = 1 -> 10 [] n = 2 -> 100 [] n = 3 -> 1000

\* The position of the first ch in s, 0 when there is none.
IndexOf(s, ch) ==
    IF \E i \in 1..Len(s) : s[i] = ch
    THEN CHOOSE i \in 1..Len(s) : s[i] = ch /\ \A j \in 1..(i - 1) : s[j] # ch
    ELSE 0

\* float(s) on a decimal literal [sign] digits [. digits] with at most three
\* fractional digits: [ok |-> FALSE] stands for ValueError.  The value is in
\* thousandths.
ParseUnsigned(s) ==
    LET dot == IndexOf(s, ".")
        ip == IF dot = 0 THEN s ELSE SubSeq(s, 1, dot - 1)
        fp == IF dot = 0 THEN <<>> ELSE SubSeq(s, dot + 1, Len(s))
    IN  IF /\ AllDigits(ip) /\ AllDigits(fp)
           /\ Len(ip) + Len(fp) > 0
           /\ Len(fp) <= 3
        THEN [ok |-> TRUE,
              val |-> DigitsValue(ip) * 1000 + DigitsValue(fp) * Pow10(3 - Len(fp))]
        ELSE [ok |-> FALSE, val |-> 0]

ParseFloat(text) ==
    LET s == Strip(text)
    IN  IF s # <<>> /\ Head(s) = "-"
        THEN LET u == ParseUnsigned(Tail(s))
             IN  [ok |-> u.ok, val |-> 0 - u.val]
        ELSE IF s # <<>> /\ Head(s) = "+"
        THEN ParseUnsigned(Tail(s))
        ELSE ParseUnsigned(s)

\* n / d rounded to the nearest integer, a tie to the even neighbour (d > 0).
RoundDiv(n, d) ==
    LET q == n \div d
        r == n % d
    IN  IF 2 * r < d THEN q
        ELSE IF 2 * r > d THEN q + 1
        ELSE IF q % 2 = 0 THEN q ELSE q + 1

\* round(x, 2) and round(x, 3) of an amount in thousandths.
Round2(x) == RoundDiv(x, 10) * 10
Round3(x) == x

\* round(price_val * conversion_rate, 2): thousandths times ten-thousandths.
ConvertRound2(price_val, rate) == RoundDiv(price_val * rate, 100000) * 10

(***************************************************************************)
(* datetime.strptime(s, "%Y-%m-%d") and .isoformat().                      *)
(***************************************************************************)
DaysInMonth(y, m) ==
    IF m \in {4, 6, 9, 11} THEN 30
    ELSE IF m = 2
         THEN IF (y % 4 = 0 /\ y % 100 # 0) \/ y % 400 = 0 THEN 29 ELSE 28
         ELSE 31

\* [ok |-> FALSE] stands for ValueError.
Strptime(s) ==
    LET d1 == IndexOf(s, "-")
        rest == IF d1 = 0 THEN <<>> ELSE SubSeq(s, d1 + 1, Len(s))
        d2 == IndexOf(rest, "-")
        ys == IF d1 = 0 THEN <<>> ELSE SubSeq(s, 1, d1 - 1)
        ms == IF d2 = 0 THEN <<>> ELSE SubSeq(rest, 1, d2 - 1)
        ds == IF d2 = 0 THEN <<>> ELSE SubSeq(rest, d2 + 1, Len(rest))
        wellFormed == /\ d1 # 0 /\ d2 # 0
                      /\ Len(ys) = 4 /\ AllDigits(ys)
                      /\ Len(ms) \in {1, 2} /\ AllDigits(ms)
                      /\ Len(ds) \in {1, 2} /\ AllDigits(ds)
        y == DigitsValue(ys)
        m == DigitsValue(ms)
        d == DigitsValue(ds)
    IN  IF wellFormed /\ y >= 1 /\ m \in 1..12 /\ d >= 1 /\ d <= DaysInMonth(y, m)
        THEN [ok |-> TRUE, date |-> <<y, m, d>>]
        ELSE [ok |-> FALSE, date |-> <<0, 0, 0>>]

\* departure_date.isoformat(): year, month, day, T00:00:00.
IsoFormat(date) == <<date[1], date[2], date[3], 0, 0, 0>>

(***************************************************************************)
(* The search dates of _scrape_route: date.today(), relativedelta and      *)
(* strftime.                                                               *)
(***************************************************************************)
DigitSeq == <<"0", "1", "2", "3", "4", "5", "6", "7", "8", "9">>

\* n in decimal, zero-padded to width digits (%Y: 4, %m and %d: 2).
RECURSIVE Padded(_, _)
Padded(n, width) ==
    IF width = 0 THEN <<>>
    ELSE Append(Padded(n \div 10, width - 1), DigitSeq[(n % 10) + 1])

\* date.strftime("%Y-%m-%d")
Strftime_Ymd(date) ==
    Padded(date[1], 4) \o <<"-">> \o Padded(date[2], 2) \o <<"-">> \o Padded(date[3], 2)

\* date.strftime("%Y-%m-01")
Strftime_Ym01(date) ==
    Padded(date[1], 4) \o <<"-">> \o Padded(date[2], 2) \o <<"-", "0", "1">>

\* date + relativedelta(months=i), 0 <= i <= 12: the month moves on, the year
\* with it past December, and the day is cut to the length of the month.
relativedelta_months(date, i) ==
    LET over == date[2] + i > 12
        year == IF over THEN date[1] + 1 ELSE date[1]
        month == IF over THEN date[2] + i - 12 ELSE date[2] + i
        day == IF date[3] > DaysInMonth(year, month)
               THEN DaysInMonth(year, month) ELSE date[3]
    IN  <<year, month, day>>

\* Search dates that keep the day of today in every month.
search_dates_same_day(today_) ==
    <<Strftime_Ymd(today_)>> \o
    [i \in 1 .. MONTHS_TO_SEARCH - 1 |->
        Strftime_Ymd(relativedelta_months(today_, i))]

\* search_dates of _scrape_route: today, then the first of each following
\* month.
search_dates(today_) ==
    <<Strftime_Ymd(today_)>> \o
    [i \in 1 .. MONTHS_TO_SEARCH - 1 |->
        Strftime_Ym01(relativedelta_months(today_, i))]

(***************************************************************************)
(* os.getenv and str.lower, for USE_PREDEFINED_ROUTES.                     *)
(***************************************************************************)
\* A variable of the process environment: unset, or set to a string.
Unset == [set |-> FALSE, value |-> <<>>]
EnvValue(v) == [set |-> TRUE, value |-> v]

\* os.getenv(name, default)
getenv(var, default) == IF var.set THEN var.value ELSE default

UpperCase == <<"A", "B", "C", "D", "E", "F", "G", "H", "I", "J", "K", "L", "M",
               "N", "O", "P", "Q", "R", "S", "T", "U", "V", "W", "X", "Y", "Z">>
LowerCase == <<"a", "b", "c", "d", "e", "f", "g", "h", "i", "j", "k", "l", "m",
               "n", "o", "p", "q", "r", "s", "t", "u", "v", "w", "x", "y", "z">>

\* str.lower()
Lower(s) ==
    [k \in 1 .. Len(s) |->
        IF \E l \in 1 .. 26 : UpperCase[l] = s[k]
        THEN LowerCase[CHOOSE l \in 1 .. 26 : UpperCase[l] = s[k]]
        ELSE s[k]]

\* A flag that is off unless the variable is set to a true value.
flag_default_off(var) ==
    Lower(getenv(var, <<"f", "a", "l", "s", "e">>))
        \in { <<"t", "r", "u", "e">>, <<"1">>, <<"y", "e", "s">> }

\* os.getenv('USE_PREDEFINED_ROUTES', 'true').lower() in ('true', '1', 'yes')
flag_use_predefined(var) ==
    Lower(getenv(var, <<"t", "r", "u", "e">>))
        \in { <<"t", "r", "u", "e">>, <<"1">>, <<"y", "e", "s">> }

\* What a run finds: the value of USE_PREDEFINED_ROUTES and the day.
Setting(flag, day) == [flag |-> flag, today |-> day]

\* Routes from the registry, mid-month late in the year.
DynamicSettings == { Setting(EnvValue(<<"f", "a", "l", "s", "e">>), <<2025, 11, 15>>) }

\* Predefined routes: the variable unset (mid-month late in the year), set
\* to "True" (the last day of a long month), set to "1" (the first day of a
\* December).
StaticSettings ==
    { Setting(Unset, <<2025, 11, 15>>),
      Setting(EnvValue(<<"T", "r", "u", "e">>), <<2025, 1, 31>>),
      Setting(EnvValue(<<"1">>), <<2024, 12, 1>>) }

(***************************************************************************)
(* Fare extraction.                                                        *)
(***************************************************************************)
EUR == <<"E", "U", "R">>
TND == <<"T", "N", "D">>

\* price_text.replace(" ", "").replace(",", ".").replace(<currency>, "")
PriceStr(price_text, currency) ==
    StrReplace(StrReplace(StrReplace(price_text, <<" ">>, <<>>), <<",">>, <<".">>),
               currency, <<>>)

\* One td.available of TunisairScraper._extract_prices: the records it adds to
\* found_flights (none or one).  A cell is [departure, price_div, text]:
\* the data-departure attribute (<<>> when absent), whether the
\* div.val_price_offre exists, and the div's text.
ExtractCell(td, is_eur_native, conversion_rate) ==
    LET date_str == td.departure
        price_text == Strip(td.text)
    IN  IF ~(date_str # <<>> /\ td.price_div /\ price_text # <<>> /\ price_text # <<"-">>)
        THEN <<>>
        ELSE LET departure_date == Strptime(date_str)
             IN  IF ~departure_date.ok THEN <<>>
                 ELSE IF is_eur_native /\ Contains(price_text, EUR)
                 THEN LET f == ParseFloat(PriceStr(price_text, EUR))
                          price_val == Round2(f.val)
                      IN  IF ~f.ok THEN <<>>
                          ELSE << [price |-> price_val, priceEur |-> price_val,
                                   departureDate |-> IsoFormat(departure_date.date)] >>
                 ELSE IF ~is_eur_native /\ Contains(price_text, TND)
                 THEN LET f == ParseFloat(PriceStr(price_text, TND))
                          price_val == Round3(f.val)
                          price_eur == ConvertRound2(price_val, conversion_rate)
                      IN  IF ~f.ok THEN <<>>
                          ELSE << [price |-> price_val, priceEur |-> price_eur,
                                   departureDate |-> IsoFormat(departure_date.date)] >>
                 ELSE <<>>

\* TunisairScraper._extract_prices over the cells of the view, in order.
RECURSIVE _extract_prices(_, _, _)
_extract_prices(html, is_eur_native, conversion_rate) ==
    IF html = <<>> THEN <<>>
    ELSE ExtractCell(Head(html), is_eur_native, conversion_rate)
         \o _extract_prices(Tail(html), is_eur_native, conversion_rate)

\* A tagging loop that writes the two codes of the route the wrong way round.
TagFlightsSwapped(extracted_data, dep_code, arr_code) ==
    [k \in 1..Len(extracted_data) |->
        [departureDate |-> extracted_data[k].departureDate,
         price |-> extracted_data[k].price,
         priceEur |-> extracted_data[k].priceEur,
         departureAirportCode |-> arr_code,
         arrivalAirportCode |-> dep_code,
         airlineCode |-> TUNISAIR]]

\* The tagging loop of _scrape_route: route codes and the airline code.
TagFlights(extracted_data, dep_code, arr_code) ==
    [k \in 1..Len(extracted_data) |->
        [departureDate |-> extracted_data[k].departureDate,
         price |-> extracted_data[k].price,
         priceEur |-> extracted_data[k].priceEur,
         departureAirportCode |-> dep_code,
         arrivalAirportCode |-> arr_code,
         airlineCode |-> TUNISAIR]]

\* One entry of the Nouvelair "data" array, as NouvelairScraper.run treats it.
\* An entry is [price, date]; price is [kind, num, text] with kind "number",
\* "string", "null" (TypeError) or "missing" (KeyError); date is [kind, text]
\* with kind "string", "null" or "missing".
NouvelairRecord(flight_data, dep_code, arr_code) ==
    LET p == flight_data.price
        f == IF p.kind = "number" THEN [ok |-> TRUE, val |-> p.num]
             ELSE IF p.kind = "string" THEN ParseFloat(p.text)
             ELSE [ok |-> FALSE, val |-> 0]
        price == f.val
        departure_date == IF flight_data.date.kind = "string"
                          THEN Strptime(flight_data.date.text)
                          ELSE [ok |-> FALSE, date |-> <<0, 0, 0>>]
    IN  IF ~f.ok THEN <<>>
        ELSE IF price <= 0 THEN <<>>
        ELSE IF ~departure_date.ok THEN <<>>
        ELSE << [departureDate |-> IsoFormat(departure_date.date),
                 price |-> price,
                 priceEur |-> price,
                 departureAirportCode |-> dep_code,
                 arrivalAirportCode |-> arr_code,
                 airlineCode |-> NOUVELAIR] >>

RECURSIVE NouvelairRecords(_, _, _)
NouvelairRecords(flights_on_route, dep_code, arr_code) ==
    IF flights_on_route = <<>> THEN <<>>
    ELSE NouvelairRecord(Head(flights_on_route), dep_code, arr_code)
         \o NouvelairRecords(Tail(flights_on_route), dep_code, arr_code)

\* An extension that leaves out the records the list already holds.
RECURSIVE extend_unseen(_, _)
extend_unseen(flights, more) ==
    IF more = <<>> THEN flights
    ELSE IF \E k \in 1 .. Len(flights) : flights[k] = Head(more)
         THEN extend_unseen(flights, Tail(more))
         ELSE extend_unseen(Append(flights, Head(more)), Tail(more))

\* list.extend, and list.append record by record: the records of a fetch go
\* to the end of the list, in their order.
extend(flights, more) == flights \o more

(***************************************************************************)
(* Route enumeration.                                                      *)
(***************************************************************************)
\* [a['code'] for a in airports if a.get("country") == country]
CodesOf(airports, country) ==
    LET sel == SelectSeq(airports, LAMBDA a : a.country = country)
    IN  [k \in 1..Len(sel) |-> sel[k].code]

\* A pairing of each a in A with the first b in B only.
ProductWithFirst(A, B) ==
    IF B = <<>> THEN <<>> ELSE [k \in 1..Len(A) |-> <<A[k], B[1]>>]

\* list(product(A, B)): for each a in A, each b in B.
Product(A, B) ==
    [k \in 1..(Len(A) * Len(B)) |->
        <<A[((k - 1) \div Len(B)) + 1], B[((k - 1) % Len(B)) + 1]>>]

VALID_ROUTES_DE_TO_TN ==
    << <<"MUC", "TUN">>, <<"MUC", "MIR">>, <<"MUC", "DJE">>,
       <<"FRA", "TUN">>, <<"FRA", "DJE">>,
       <<"DUS", "TUN">> >>

VALID_ROUTES_TN_TO_DE ==
    << <<"TUN", "MUC">>, <<"TUN", "FRA">>, <<"TUN", "DUS">>,
       <<"MIR", "MUC">>,
       <<"DJE", "MUC">>, <<"DJE", "FRA">> >>

(***************************************************************************)
(* What the environment can answer.                                        *)
(***************************************************************************)
\* requests.RequestException, as raised by the transport (connection error,
\* timeout) and by raise_for_status() on a non-2xx status.
RequestException == "RequestException"

\* An exception object: its class and, to tell one object from another, the
\* attempt of the retry loop that raised it (0 outside a retry loop).
Exception(class, n) == [class |-> class, attempt |-> n]
None == Exception("", 0)

\* The backend registry's airports (GET /airports/).
Airport(code, country) == [code |-> code, country |-> country]
AirportLists ==
    { <<>>,
      << Airport("TUN", "TN") >>,
      << Airport("TUN", "TN"), Airport("CDG", "FR"), Airport("FRA", "DE") >>,
      << Airport("TUN", "TN"), Airport("FRA", "DE"), Airport("MUC", "DE") >> }

\* Values of EXCHANGE_RATE_API_KEY.
ApiKeys == {"", "YOUR_API_KEY", "k3y"}

\* Bodies of a 2xx answer of the rate service: result and conversion_rates.
RateBodies ==
    { [result |-> "success", conversion_rates |-> ("EUR" :> 3000 @@ "USD" :> 3200)],
      [result |-> "success", conversion_rates |-> ("EUR" :> 3125 @@ "USD" :> 3200)],
      [result |-> "success", conversion_rates |-> ("USD" :> 3200)],
      [result |-> "error", conversion_rates |-> ("USD" :> 3200)] }

\* X-API-Key values the Nouvelair site's own requests carry.
SiteKeys == {"key1", "key2"}

D_2025_03_01 == <<"2", "0", "2", "5", "-", "0", "3", "-", "0", "1">>
D_2025_03_02 == <<"2", "0", "2", "5", "-", "0", "3", "-", "0", "2">>
D_2025_02_30 == <<"2", "0", "2", "5", "-", "0", "2", "-", "3", "0">>

Td(departure, text) == [departure |-> departure, price_div |-> TRUE, text |-> text]

\* The "view" markup of a Tunisair per-day answer, as its td.available
\* cells: fares in both currencies, a placeholder, a zero fare, an impossible
\* date, an unparsable price and a cell without data-departure.
TunisairViews ==
    { << Td(D_2025_03_01, <<"1", "2", "3", ",", "4", "5", " ", "E", "U", "R">>),
         Td(D_2025_03_01, <<"4", "5", ",", "6", "7", "8", " ", "T", "N", "D">>),
         Td(D_2025_03_02, <<"-">>),
         Td(D_2025_03_02, <<"0", " ", "E", "U", "R">>),
         Td(D_2025_02_30, <<"9", "9", " ", "E", "U", "R">>),
         Td(D_2025_03_02, <<"N", "/", "A", " ", "T", "N", "D">>),
         Td(<<>>, <<"8", "0", " ", "T", "N", "D">>),
         Td(D_2025_03_02, <<"1", "0", "0", ",", "5", " ", "T", "N", "D">>) >> }
NoCellsView == <<>>

NumPrice(n) == [kind |-> "number", num |-> n, text |-> <<>>]
StrPrice(t) == [kind |-> "string", num |-> 0, text |-> t]
NoPrice(k) == [kind |-> k, num |-> 0, text |-> <<>>]
StrDate(t) == [kind |-> "string", text |-> t]
NoDate(k) == [kind |-> k, text |-> <<>>]

\* The "data" array of a Nouvelair availability answer: fares as numbers and
\* as a string, a zero and a negative fare, entries without price or date, an
\* impossible date.
NouvelairData ==
    { << [price |-> NumPrice(59990), date |-> StrDate(D_2025_03_01)],
         [price |-> NumPrice(0), date |-> StrDate(D_2025_03_01)],
         [price |-> NumPrice(0 - 1000), date |-> StrDate(D_2025_03_02)],
         [price |-> StrPrice(<<"4", "5", ".", "5">>), date |-> StrDate(D_2025_03_02)],
         [price |-> NoPrice("null"), date |-> StrDate(D_2025_03_02)],
         [price |-> NoPrice("missing"), date |-> StrDate(D_2025_03_02)],
         [price |-> NumPrice(70000), date |-> NoDate("missing")],
         [price |-> NumPrice(70000), date |-> StrDate(D_2025_02_30)],
         [price |-> NumPrice(12345), date |-> StrDate(D_2025_03_02)] >> }

\* The batch of n distinct records that a run has aggregated.
Batch(n) ==
    [k \in 1..n |->
        [departureDate |-> <<2025, 3, 1, 0, 0, 0>>,
         price |-> k * 1000,
         priceEur |-> k * 1000,
         departureAirportCode |-> "FRA",
         arrivalAirportCode |-> "TUN",
         airlineCode |-> TUNISAIR]]

(***************************************************************************)
(* State.                                                                  *)
(***************************************************************************)
VARIABLES
    \* the environment: configuration, registry, and what it may still do
    backend_url,            \* MAIN_BACKEND_URL, "" when unset
    exchange_rate_api_key,  \* EXCHANGE_RATE_API_KEY
    USE_PREDEFINED_ROUTES,  \* the environment variable of that name
    registry,               \* the airports the backend serves
    today,                  \* date.today(), as <<year, month, day>>
    faultsLeft,             \* failing responses still to come
    dataLeft,               \* fare-carrying responses still to come
    \* lifespan
    app,                    \* "starting", "serving"
    scheduler,              \* "none", "running"
    jobs,                   \* the carriers whose job the scheduler holds
    api_client,             \* the BackendApiClient each scraper holds (0: none)
    \* the two jobs, by carrier
    pc,                     \* where the job's thread is
    runs,                   \* triggers so far
    job_log,                \* what the job wrappers logged at each job's end
    run_outcome,            \* how the current or last run() ended
    raised,                 \* the exception run() let out
    \* NouvelairScraper
    api_key,                \* self.api_key ("" for None)
    captured_key,           \* captured_key of the run's _capture_api_key
    \* TunisairScraper.run
    routes_tn_to_de,
    conversion_rate,        \* 0 before the lookup
    rate_arg,               \* conversion_rate of the current _scrape_route call
    search_date,            \* "date" of the last GET of _scrape_route
    \* locals of run(), _scrape_route() and the client's methods
    airports,
    routes,                 \* the route list of the loop the run is in
    route_i,                \* routes handled in that loop
    window,                 \* search dates handled for the current route
    attempt,                \* attempt of the retry loop the thread is in
    all_scraped_flights,
    chunk_i,                \* i of report_scraped_data
    last_exception,
    \* observations
    posted,                 \* payloads the backend accepted in this run
    calls,                  \* in this run: rate and post requests issued, and
                            \* calls of _get_exchange_rate (lookup)
    last_response,          \* outcome of the thread's last request
    slept                   \* the thread's last time.sleep, in ms

cfgVars == <<backend_url, exchange_rate_api_key, USE_PREDEFINED_ROUTES, registry, today>>

\* use_predefined of TunisairScraper.run.
use_predefined == flag_use_predefined(USE_PREDEFINED_ROUTES)
envVars == <<faultsLeft, dataLeft>>
appVars == <<app, scheduler, jobs, api_client>>
jobVars == <<pc, runs, job_log, run_outcome, raised>>
nouvelairVars == <<api_key, captured_key>>
tunisairVars == <<routes_tn_to_de, conversion_rate, rate_arg, search_date>>
routeVars == <<airports, routes, route_i, window>>
reportVars == <<chunk_i, last_exception, posted>>
vars == <<cfgVars, envVars, appVars, jobVars, nouvelairVars, tunisairVars,
          routeVars, attempt, all_scraped_flights, reportVars, calls,
          last_response, slept>>

NoCalls == [rate |-> 0, lookup |-> 0, post |-> 0]

(***************************************************************************)
(* Control flow of a job's thread.                                         *)
(***************************************************************************)
Set(f, c, v) == [f EXCEPT ![c] = v]

Goto(c, label) ==
    /\ pc' = Set(pc, c, label)
    /\ UNCHANGED <<run_outcome, raised>>

\* run() returns.
Return(c, outcome) ==
    /\ pc' = Set(pc, c, "returned")
    /\ run_outcome' = Set(run_outcome, c, outcome)
    /\ UNCHANGED raised

\* run() lets exception e out.
Raise(c, e) ==
    /\ pc' = Set(pc, c, "raised")
    /\ run_outcome' = Set(run_outcome, c, "raised")
    /\ raised' = Set(raised, c, e)

Fault == faultsLeft > 0 /\ faultsLeft' = faultsLeft - 1 /\ UNCHANGED dataLeft
Data == dataLeft > 0 /\ dataLeft' = dataLeft - 1 /\ UNCHANGED faultsLeft
Plain == UNCHANGED <<faultsLeft, dataLeft>>

\* A request of a counted kind was issued and answered.
Called(c, kind, response) ==
    /\ calls' = [calls EXCEPT ![c][kind] = @ + 1]
    /\ last_response' = Set(last_response, c, response)

\* A request of another kind was issued and answered.
Answered(c, response) ==
    /\ last_response' = Set(last_response, c, response)
    /\ UNCHANGED calls

(***************************************************************************)
(* app/main.py: lifespan and the two job wrappers.                         *)
(***************************************************************************)
\* GET /ping, which the application answers once lifespan has yielded.
ping == [message |-> "pong"]

\* A lifespan that goes on to build the client, the scrapers and the
\* scheduler whatever MAIN_BACKEND_URL holds.
StartupUnconditional ==
    /\ app = "starting"
    /\ app' = "serving"
    /\ api_client' = [c \in Carriers |-> 1]
    /\ jobs' = {NOUVELAIR, TUNISAIR}
    /\ scheduler' = "running"
    /\ UNCHANGED <<cfgVars, envVars, jobVars, nouvelairVars, tunisairVars,
                   routeVars, attempt, all_scraped_flights, reportVars, calls,
                   last_response, slept>>

\* lifespan up to its yield.
Startup ==
    /\ app = "starting"
    /\ app' = "serving"
    /\ IF backend_url = ""
       THEN UNCHANGED <<scheduler, jobs, api_client>>
       ELSE /\ api_client' = [c \in Carriers |-> 1]
            /\ jobs' = {NOUVELAIR, TUNISAIR}
            /\ scheduler' = "running"
    /\ UNCHANGED <<cfgVars, envVars, jobVars, nouvelairVars, tunisairVars,
                   routeVars, attempt, all_scraped_flights, reportVars, calls,
                   last_response, slept>>

\* The locals of a call of run() and of the methods it calls, as they start.
FreshLocals(c) ==
    /\ route_i' = Set(route_i, c, 0)
    /\ window' = Set(window, c, 0)
    /\ attempt' = Set(attempt, c, 0)
    /\ all_scraped_flights' = Set(all_scraped_flights, c, <<>>)
    /\ chunk_i' = Set(chunk_i, c, 0)
    /\ last_exception' = Set(last_exception, c, None)
    /\ posted' = Set(posted, c, <<>>)
    /\ calls' = Set(calls, c, NoCalls)
    /\ last_response' = Set(last_response, c, "none")
    /\ slept' = Set(slept, c, 0)
    /\ raised' = Set(raised, c, None)
    /\ run_outcome' = Set(run_outcome, c, "none")

\* No call of run() is active in c's thread: nothing is left of its locals.
FreshRun(c) ==
    /\ FreshLocals(c)
    /\ airports' = Set(airports, c, <<>>)
    /\ routes' = Set(routes, c, <<>>)
    /\ IF c = NOUVELAIR
       THEN captured_key' = "" /\ UNCHANGED tunisairVars
       ELSE /\ routes_tn_to_de' = <<>>
            /\ conversion_rate' = 0
            /\ rate_arg' = 0
            /\ search_date' = <<>>
            /\ UNCHANGED captured_key

\* The scheduler may fire job c: it holds the job, and no instance of it is
\* running (one instance per job at a time).
Due(c) ==
    /\ scheduler = "running"
    /\ c \in jobs
    /\ pc[c] = "idle"
    /\ runs[c] < MaxRuns
    /\ runs[NOUVELAIR] + runs[TUNISAIR] < MaxTriggers

\* The scheduler fires run_nouvelair_job: the wrapper calls run(), which goes
\* to capture the key.
TriggerNouvelair ==
    /\ Due(NOUVELAIR)
    /\ runs' = Set(runs, NOUVELAIR, runs[NOUVELAIR] + 1)
    /\ pc' = Set(pc, NOUVELAIR, "capture")
    /\ FreshRun(NOUVELAIR)
    /\ UNCHANGED <<cfgVars, envVars, appVars, job_log, api_key>>

\* run() of TunisairScraper up to its first request: the predefined routes,
\* or the airports are to be fetched.
TunisairRunStart ==
    /\ airports' = Set(airports, TUNISAIR, <<>>)
    /\ UNCHANGED captured_key
    /\ conversion_rate' = 0
    /\ search_date' = <<>>
    /\ IF use_predefined
       THEN /\ routes' = Set(routes, TUNISAIR, VALID_ROUTES_DE_TO_TN)
            /\ routes_tn_to_de' = VALID_ROUTES_TN_TO_DE
            /\ rate_arg' = 10000
            /\ pc' = Set(pc, TUNISAIR, "scrape_de")
       ELSE /\ routes' = Set(routes, TUNISAIR, <<>>)
            /\ routes_tn_to_de' = <<>>
            /\ rate_arg' = 0
            /\ pc' = Set(pc, TUNISAIR, "airports")

\* The scheduler fires run_tunisair_job: the wrapper calls run().
TriggerTunisair ==
    /\ Due(TUNISAIR)
    /\ runs' = Set(runs, TUNISAIR, runs[TUNISAIR] + 1)
    /\ FreshLocals(TUNISAIR)
    /\ TunisairRunStart
    /\ UNCHANGED <<cfgVars, envVars, appVars, job_log, api_key>>

\* A job function without the except clause: an exception of run() is not
\* handled in it, and the job function does not come to its end.
JobWithoutExcept(c) ==
    /\ pc[c] = "returned"
    /\ job_log' = Append(job_log, [job |-> c, result |-> "finished"])
    /\ pc' = Set(pc, c, "idle")
    /\ FreshRun(c)
    /\ UNCHANGED <<cfgVars, envVars, appVars, runs, api_key>>

\* The try/except of run_nouvelair_job and run_tunisair_job around run():
\* the job ends whether run() returned or raised.
JobWrapper(c) ==
    /\ pc[c] \in {"returned", "raised"}
    /\ job_log' = Append(job_log, [job |-> c,
                                   result |-> IF pc[c] = "raised" THEN "FAILED"
                                              ELSE "finished"])
    /\ pc' = Set(pc, c, "idle")
    /\ FreshRun(c)
    /\ UNCHANGED <<cfgVars, envVars, appVars, runs, api_key>>

(***************************************************************************)
(* backend_api_client.py: BackendApiClient.                                *)
(***************************************************************************)
\* NouvelairScraper.run once get_airports has returned list: abort on an
\* empty list, else both cross products.
NouvelairRoutes(list) ==
    LET tunisian_airports == CodesOf(list, "TN")
        german_airports == CodesOf(list, "DE")
        rs == Product(tunisian_airports, german_airports)
              \o Product(german_airports, tunisian_airports)
    IN  /\ airports' = Set(airports, NOUVELAIR, list)
        /\ UNCHANGED tunisairVars
        /\ IF list = <<>>
           THEN /\ Return(NOUVELAIR, "aborted")
                /\ UNCHANGED routes
           ELSE /\ routes' = Set(routes, NOUVELAIR, rs)
                /\ IF rs = <<>>
                   THEN Goto(NOUVELAIR, "aggregated")
                   ELSE Goto(NOUVELAIR, "fetch")

\* A run() that tests only the list, not the two filtered sets: with an empty
\* set both loops are empty, and the rate is looked up between them.
TunisairRoutesUnchecked(list) ==
    LET tunisian_airports == CodesOf(list, "TN")
        german_airports == CodesOf(list, "DE")
    IN  /\ airports' = Set(airports, TUNISAIR, list)
        /\ UNCHANGED <<conversion_rate, search_date>>
        /\ IF list = <<>>
           THEN /\ Return(TUNISAIR, "aborted")
                /\ UNCHANGED <<routes, routes_tn_to_de, rate_arg>>
           ELSE /\ routes' = Set(routes, TUNISAIR,
                                 Product(german_airports, tunisian_airports))
                /\ routes_tn_to_de' = Product(tunisian_airports, german_airports)
                /\ rate_arg' = 10000
                /\ IF tunisian_airports = <<>> \/ german_airports = <<>>
                   THEN Goto(TUNISAIR, "lookup")
                   ELSE Goto(TUNISAIR, "scrape_de")

\* TunisairScraper.run (dynamic routes) once get_airports has returned list.
TunisairRoutes(list) ==
    LET tunisian_airports == CodesOf(list, "TN")
        german_airports == CodesOf(list, "DE")
    IN  /\ airports' = Set(airports, TUNISAIR, list)
        /\ UNCHANGED <<conversion_rate, search_date>>
        /\ IF list = <<>> \/ tunisian_airports = <<>> \/ german_airports = <<>>
           THEN /\ Return(TUNISAIR, "aborted")
                /\ UNCHANGED <<routes, routes_tn_to_de, rate_arg>>
           ELSE /\ routes' = Set(routes, TUNISAIR,
                                 Product(german_airports, tunisian_airports))
                /\ routes_tn_to_de' = Product(tunisian_airports, german_airports)
                /\ rate_arg' = 10000
                /\ Goto(TUNISAIR, "scrape_de")

GotAirports(c, list) ==
    IF c = NOUVELAIR THEN NouvelairRoutes(list) ELSE TunisairRoutes(list)

\* One attempt of get_airports' retry loop, and the caller's next lines when
\* the method returns.
GetAirportsAttempt(c) ==
    /\ pc[c] = "airports"
    /\ \E r \in {"ok", RequestException} :
        /\ Answered(c, r)
        /\ IF r = "ok"
           THEN /\ Plain
                /\ attempt' = Set(attempt, c, 0)
                /\ slept' = Set(slept, c, 0)
                /\ GotAirports(c, registry)
           ELSE /\ Fault
                /\ IF attempt[c] < REQUEST_RETRIES - 1
                   THEN /\ attempt' = Set(attempt, c, attempt[c] + 1)
                        /\ slept' = Set(slept, c, 2000 * (attempt[c] + 1))
                        /\ Goto(c, "airports")
                        /\ UNCHANGED <<airports, routes, tunisairVars>>
                   ELSE /\ attempt' = Set(attempt, c, 0)
                        /\ slept' = Set(slept, c, 0)
                        /\ GotAirports(c, <<>>)
    /\ UNCHANGED <<cfgVars, appVars, runs, job_log, nouvelairVars, route_i,
                   window, all_scraped_flights, reportVars>>

\* The end of both run() methods: report when there is something to report.
FinishScrape(c) ==
    /\ pc[c] = "aggregated"
    /\ IF all_scraped_flights[c] # <<>>
       THEN Goto(c, "call_report")
       ELSE Return(c, "done")
    /\ slept' = Set(slept, c, 0)
    /\ UNCHANGED <<cfgVars, envVars, appVars, runs, job_log, nouvelairVars,
                   tunisairVars, routeVars, attempt, all_scraped_flights,
                   reportVars, calls, last_response>>

\* A report_scraped_data without the test for an empty list.
ReportScrapedDataUntested(c) ==
    /\ pc[c] = "call_report"
    /\ Goto(c, "report")
    /\ attempt' = Set(attempt, c, 0)
    /\ chunk_i' = Set(chunk_i, c, 0)
    /\ last_exception' = Set(last_exception, c, None)
    /\ slept' = Set(slept, c, 0)
    /\ UNCHANGED <<cfgVars, envVars, appVars, runs, job_log, nouvelairVars,
                   tunisairVars, routeVars, all_scraped_flights, posted, calls,
                   last_response>>

\* The head of report_scraped_data: nothing to do for an empty list, else the
\* chunk loop starts at i = 0.
ReportScrapedData(c) ==
    /\ pc[c] = "call_report"
    /\ IF all_scraped_flights[c] = <<>>
       THEN Return(c, "done")
       ELSE Goto(c, "report")
    /\ attempt' = Set(attempt, c, 0)
    /\ chunk_i' = Set(chunk_i, c, 0)
    /\ last_exception' = Set(last_exception, c, None)
    /\ slept' = Set(slept, c, 0)
    /\ UNCHANGED <<cfgVars, envVars, appVars, runs, job_log, nouvelairVars,
                   tunisairVars, routeVars, all_scraped_flights, posted, calls,
                   last_response>>

\* A slice one record short of POST_CHUNK_SIZE: the record at the end of each
\* full slice is sent in no payload.
ChunkShort(scraped_flights, i) ==
    SubSeq(scraped_flights, i + 1,
           IF i + POST_CHUNK_SIZE - 1 < Len(scraped_flights)
           THEN i + POST_CHUNK_SIZE - 1 ELSE Len(scraped_flights))

\* scraped_flights[i : i + POST_CHUNK_SIZE]
Chunk(scraped_flights, i) ==
    SubSeq(scraped_flights, i + 1,
           IF i + POST_CHUNK_SIZE < Len(scraped_flights)
           THEN i + POST_CHUNK_SIZE ELSE Len(scraped_flights))

\* A chunk loop that pauses after every accepted chunk, the last included.
PostOkAlwaysPauses(c) ==
    /\ posted' = Set(posted, c,
                     Append(posted[c], Chunk(all_scraped_flights[c], chunk_i[c])))
    /\ last_exception' = Set(last_exception, c, None)
    /\ attempt' = Set(attempt, c, 0)
    /\ slept' = Set(slept, c, 1000)
    /\ IF chunk_i[c] + POST_CHUNK_SIZE < Len(all_scraped_flights[c])
       THEN /\ chunk_i' = Set(chunk_i, c, chunk_i[c] + POST_CHUNK_SIZE)
            /\ Goto(c, "report")
       ELSE /\ UNCHANGED chunk_i
            /\ Return(c, "done")

\* A POST of the chunk at i was answered 2xx: the next chunk after a pause,
\* or the return.
PostOk(c) ==
    /\ posted' = Set(posted, c,
                     Append(posted[c], Chunk(all_scraped_flights[c], chunk_i[c])))
    /\ last_exception' = Set(last_exception, c, None)
    /\ attempt' = Set(attempt, c, 0)
    /\ IF chunk_i[c] + POST_CHUNK_SIZE < Len(all_scraped_flights[c])
       THEN /\ slept' = Set(slept, c, 1000)
            /\ chunk_i' = Set(chunk_i, c, chunk_i[c] + POST_CHUNK_SIZE)
            /\ Goto(c, "report")
       ELSE /\ slept' = Set(slept, c, 0)
            /\ UNCHANGED chunk_i
            /\ Return(c, "done")

\* A retry loop that keeps the exception of the chunk's first failed attempt
\* and raises that one.
PostFailedKeepFirst(c, e) ==
    /\ last_exception' = Set(last_exception, c,
                             IF last_exception[c] = None THEN e ELSE last_exception[c])
    /\ UNCHANGED <<posted, chunk_i>>
    /\ IF attempt[c] < REQUEST_RETRIES - 1
       THEN /\ attempt' = Set(attempt, c, attempt[c] + 1)
            /\ slept' = Set(slept, c, 2000 * (attempt[c] + 1))
            /\ Goto(c, "report")
       ELSE /\ UNCHANGED attempt
            /\ slept' = Set(slept, c, 0)
            /\ Raise(c, last_exception'[c])

\* A retry loop that allows one attempt more than REQUEST_RETRIES.
PostFailedOneMore(c, e) ==
    /\ last_exception' = Set(last_exception, c, e)
    /\ UNCHANGED <<posted, chunk_i>>
    /\ IF attempt[c] < REQUEST_RETRIES
       THEN /\ attempt' = Set(attempt, c, attempt[c] + 1)
            /\ slept' = Set(slept, c, 2000 * (attempt[c] + 1))
            /\ Goto(c, "report")
       ELSE /\ UNCHANGED attempt
            /\ slept' = Set(slept, c, 0)
            /\ Raise(c, last_exception'[c])

\* A POST of the chunk at i raised e: another attempt after a delay, or,
\* after the last attempt, raise last_exception.
PostFailed(c, e) ==
    /\ last_exception' = Set(last_exception, c, e)
    /\ UNCHANGED <<posted, chunk_i>>
    /\ IF attempt[c] < REQUEST_RETRIES - 1
       THEN /\ attempt' = Set(attempt, c, attempt[c] + 1)
            /\ slept' = Set(slept, c, 2000 * (attempt[c] + 1))
            /\ Goto(c, "report")
       ELSE /\ UNCHANGED attempt
            /\ slept' = Set(slept, c, 0)
            /\ Raise(c, last_exception'[c])

\* One POST of report_scraped_data's retry loop.
PostAttempt(c) ==
    /\ pc[c] = "report"
    /\ \E r \in {"ok", RequestException} :
        /\ Called(c, "post", r)
        /\ IF r = "ok"
           THEN Plain /\ PostOk(c)
           ELSE Fault /\ PostFailed(c, Exception(r, attempt[c] + 1))
    /\ UNCHANGED <<cfgVars, appVars, runs, job_log, nouvelairVars, tunisairVars,
                   routeVars, all_scraped_flights>>

(***************************************************************************)
(* nouvelair_scraper_service.py: NouvelairScraper.                         *)
(***************************************************************************)
\* The end of _capture_api_key: self.api_key is set only when a key was
\* captured.
KeyAfterCapture(old_key, captured) == IF captured # "" THEN captured ELSE old_key

\* _capture_api_key and run()'s check of self.api_key.  The browser may fail
\* to launch (the exception leaves run()), the site's requests may show a
\* key, or the wait may end without one.
CaptureApiKey ==
    /\ pc[NOUVELAIR] = "capture"
    /\ \/ \E k \in SiteKeys :
            /\ Plain
            /\ Answered(NOUVELAIR, "ok")
            /\ captured_key' = k
            /\ api_key' = KeyAfterCapture(api_key, k)
            /\ Goto(NOUVELAIR, "airports")
       \/ /\ Fault
          /\ Answered(NOUVELAIR, "timeout")
          /\ captured_key' = ""
          /\ api_key' = KeyAfterCapture(api_key, "")
          /\ IF api_key' = ""
             THEN Return(NOUVELAIR, "aborted")
             ELSE Goto(NOUVELAIR, "airports")
       \/ /\ Fault
          /\ Answered(NOUVELAIR, "launch_error")
          /\ UNCHANGED <<captured_key, api_key>>
          /\ Raise(NOUVELAIR, Exception("Error", 0))
    /\ UNCHANGED <<cfgVars, appVars, runs, job_log, tunisairVars, routeVars,
                   attempt, all_scraped_flights, reportVars, slept>>

\* One pass of run()'s loop over routes: _get_nouvelair_flight_availability
\* (one GET, no retry; [] on a RequestException), the pause, and the records
\* of the entries.  "malformed" is a 2xx answer whose JSON is not an object:
\* .get raises AttributeError, which nothing catches.  The GET is issued
\* without a timeout: when the server sends nothing the thread stays in
\* requests.get ("blocked").
NouvelairFetch ==
    LET c == NOUVELAIR
        route == routes[c][route_i[c] + 1]
        Extend(flights_on_route) ==
            /\ all_scraped_flights' =
                   Set(all_scraped_flights, c,
                       extend(all_scraped_flights[c],
                              NouvelairRecords(flights_on_route, route[1], route[2])))
            /\ route_i' = Set(route_i, c, route_i[c] + 1)
            /\ slept' = Set(slept, c, 1000)
            /\ IF route_i[c] + 1 < Len(routes[c])
               THEN Goto(c, "fetch")
               ELSE Goto(c, "aggregated")
    IN  /\ pc[c] = "fetch"
        /\ \/ /\ Plain
              /\ Answered(c, "ok")
              /\ Extend(<<>>)
           \/ \E d \in NouvelairData :
               /\ Data
               /\ Answered(c, "ok")
               /\ Extend(d)
           \/ /\ Fault
              /\ Answered(c, RequestException)
              /\ Extend(<<>>)
           \/ /\ Fault
              /\ Answered(c, "malformed")
              /\ UNCHANGED <<all_scraped_flights, route_i, slept>>
              /\ Raise(c, Exception("AttributeError", 0))
           \/ /\ Fault
              /\ last_response' = Set(last_response, c, "none")
              /\ UNCHANGED <<calls, all_scraped_flights, route_i, slept>>
              /\ Goto(c, "blocked")
        /\ UNCHANGED <<cfgVars, appVars, runs, job_log, nouvelairVars,
                       tunisairVars, airports, routes, window, attempt,
                       reportVars>>

(***************************************************************************)
(* tunisair_scraper_service.py: TunisairScraper.                           *)
(***************************************************************************)
\* A test that takes the placeholder for a key.
api_key_nonempty(key) == key # ""

\* __init__: exchange_rate_api_key and exchange_rate_api_key != "YOUR_API_KEY"
api_key_provided(key) == key # "" /\ key # "YOUR_API_KEY"

\* A loop over routes_tn_to_de that converts with the hardcoded rate whatever
\* the lookup returned.
StartTnLoopFixedRate(rate) ==
    /\ conversion_rate' = rate
    /\ rate_arg' = fallback_eur_rate
    /\ routes' = Set(routes, TUNISAIR, routes_tn_to_de)
    /\ route_i' = Set(route_i, TUNISAIR, 0)
    /\ window' = Set(window, TUNISAIR, 0)
    /\ attempt' = Set(attempt, TUNISAIR, 0)
    /\ UNCHANGED <<routes_tn_to_de, search_date>>
    /\ IF routes_tn_to_de = <<>>
       THEN Goto(TUNISAIR, "aggregated")
       ELSE Goto(TUNISAIR, "scrape_tn")

\* run() after "conversion_rate = self._get_exchange_rate()" returned rate:
\* the loop over routes_tn_to_de starts.
StartTnLoop(rate) ==
    /\ conversion_rate' = rate
    /\ rate_arg' = rate
    /\ routes' = Set(routes, TUNISAIR, routes_tn_to_de)
    /\ route_i' = Set(route_i, TUNISAIR, 0)
    /\ window' = Set(window, TUNISAIR, 0)
    /\ attempt' = Set(attempt, TUNISAIR, 0)
    /\ UNCHANGED <<routes_tn_to_de, search_date>>
    /\ IF routes_tn_to_de = <<>>
       THEN Goto(TUNISAIR, "aggregated")
       ELSE Goto(TUNISAIR, "scrape_tn")

\* run() between its two loops: the call of _get_exchange_rate, which returns
\* the fallback at once without a key and else starts its retry loop.
CallGetExchangeRate ==
    /\ pc[TUNISAIR] = "lookup"
    /\ calls' = [calls EXCEPT ![TUNISAIR].lookup = @ + 1]
    /\ slept' = Set(slept, TUNISAIR, 0)
    /\ IF ~api_key_provided(exchange_rate_api_key)
       THEN StartTnLoop(fallback_eur_rate)
       ELSE /\ Goto(TUNISAIR, "rate")
            /\ attempt' = Set(attempt, TUNISAIR, 0)
            /\ UNCHANGED <<tunisairVars, routes, route_i, window>>
    /\ UNCHANGED <<cfgVars, envVars, appVars, runs, job_log, nouvelairVars,
                   airports, all_scraped_flights, reportVars, last_response>>

\* One attempt of _get_exchange_rate's retry loop.  A 2xx answer whose result
\* is not "success" goes to the next attempt without a sleep; one whose
\* conversion_rates has no EUR raises KeyError, which nothing catches.
RateAttempt ==
    LET c == TUNISAIR
        Again(delay) ==
            IF attempt[c] < TUNISAIR_REQUEST_RETRIES - 1
            THEN /\ attempt' = Set(attempt, c, attempt[c] + 1)
                 /\ slept' = Set(slept, c, delay)
                 /\ Goto(c, "rate")
                 /\ UNCHANGED <<tunisairVars, routes, route_i, window>>
            ELSE /\ slept' = Set(slept, c, 0)
                 /\ StartTnLoop(fallback_eur_rate)
    IN  /\ pc[c] = "rate"
        /\ \/ \E body \in RateBodies :
               /\ Called(c, "rate", "ok")
               /\ IF body.result = "success"
                  THEN IF "EUR" \in DOMAIN body.conversion_rates
                       THEN /\ Plain
                            /\ slept' = Set(slept, c, 0)
                            /\ StartTnLoop(body.conversion_rates["EUR"])
                       ELSE /\ Fault
                            /\ UNCHANGED <<tunisairVars, routes, route_i, window,
                                           attempt, slept>>
                            /\ Raise(c, Exception("KeyError", 0))
                  ELSE /\ Fault
                       /\ Again(0)
           \/ /\ Fault
              /\ Called(c, "rate", RequestException)
              /\ Again(1000)
        /\ UNCHANGED <<cfgVars, appVars, runs, job_log, nouvelairVars, airports,
                       all_scraped_flights, reportVars>>

\* _scrape_route after a search date is done with (fetched or given up): the
\* pause, then the next search date, the next route, or the end of the loop.
NextWindow(c) ==
    /\ slept' = Set(slept, c, 500)
    /\ attempt' = Set(attempt, c, 0)
    /\ IF window[c] + 1 < MONTHS_TO_SEARCH
       THEN /\ window' = Set(window, c, window[c] + 1)
            /\ UNCHANGED route_i
            /\ Goto(c, pc[c])
       ELSE /\ window' = Set(window, c, 0)
            /\ route_i' = Set(route_i, c, route_i[c] + 1)
            /\ IF route_i[c] + 1 < Len(routes[c])
               THEN Goto(c, pc[c])
               ELSE IF pc[c] = "scrape_de"
                    THEN Goto(c, "lookup")
                    ELSE Goto(c, "aggregated")

\* A retry loop in which the last failed attempt lets its exception out of
\* _scrape_route and run().
WindowFetchFailedRaises(c) ==
    /\ UNCHANGED all_scraped_flights
    /\ IF attempt[c] < TUNISAIR_REQUEST_RETRIES - 1
       THEN /\ attempt' = Set(attempt, c, attempt[c] + 1)
            /\ slept' = Set(slept, c, 1000)
            /\ UNCHANGED <<window, route_i>>
            /\ Goto(c, pc[c])
       ELSE /\ UNCHANGED <<window, route_i, attempt, slept>>
            /\ Raise(c, Exception(RequestException, attempt[c] + 1))

\* The except clause of _scrape_route's retry loop: a pause and another
\* attempt, or, after the last one, html_view stays None and the search date
\* is given up without a record.
WindowFetchFailed(c) ==
    /\ UNCHANGED all_scraped_flights
    /\ IF attempt[c] < TUNISAIR_REQUEST_RETRIES - 1
       THEN /\ attempt' = Set(attempt, c, attempt[c] + 1)
            /\ slept' = Set(slept, c, 1000)
            /\ UNCHANGED <<window, route_i>>
            /\ Goto(c, pc[c])
       ELSE NextWindow(c)

\* One GET of _scrape_route's retry loop for the current route and search
\* date.  "malformed" is a 2xx answer whose JSON is not an object.
TunisairFetchAttempt ==
    LET c == TUNISAIR
        route == routes[c][route_i[c] + 1]
        is_eur_native == pc[c] = "scrape_de"
        Got(html_view) ==
            /\ all_scraped_flights' =
                   Set(all_scraped_flights, c,
                       extend(all_scraped_flights[c],
                              TagFlights(_extract_prices(html_view, is_eur_native, rate_arg),
                                         route[1], route[2])))
            /\ NextWindow(c)
    IN  /\ pc[c] \in {"scrape_de", "scrape_tn"}
        /\ search_date' = search_dates(today)[window[c] + 1]
        /\ \/ /\ Plain
              /\ Answered(c, "ok")
              /\ Got(NoCellsView)
           \/ \E v \in TunisairViews :
               /\ Data
               /\ Answered(c, "ok")
               /\ Got(v)
           \/ /\ Fault
              /\ Answered(c, RequestException)
              /\ WindowFetchFailed(c)
           \/ /\ Fault
              /\ Answered(c, "malformed")
              /\ UNCHANGED <<all_scraped_flights, window, route_i, attempt, slept>>
              /\ Raise(c, Exception("AttributeError", 0))
        /\ UNCHANGED <<cfgVars, appVars, runs, job_log, nouvelairVars,
                       routes_tn_to_de, conversion_rate, rate_arg, airports,
                       routes, reportVars>>

(***************************************************************************)
(* Specifications.                                                         *)
(***************************************************************************)
BackendUrls == {"", "http://backend:8000"}

\* No job has run yet.
Idle ==
    /\ pc = [c \in Carriers |-> "idle"]
    /\ runs = [c \in Carriers |-> 0]
    /\ job_log = <<>>
    /\ run_outcome = [c \in Carriers |-> "none"]
    /\ raised = [c \in Carriers |-> None]
    /\ api_key = ""
    /\ captured_key = ""
    /\ routes_tn_to_de = <<>>
    /\ conversion_rate = 0
    /\ rate_arg = 0
    /\ search_date = <<>>
    /\ airports = [c \in Carriers |-> <<>>]
    /\ routes = [c \in Carriers |-> <<>>]
    /\ route_i = [c \in Carriers |-> 0]
    /\ window = [c \in Carriers |-> 0]
    /\ attempt = [c \in Carriers |-> 0]
    /\ all_scraped_flights = [c \in Carriers |-> <<>>]
    /\ chunk_i = [c \in Carriers |-> 0]
    /\ last_exception = [c \in Carriers |-> None]
    /\ posted = [c \in Carriers |-> <<>>]
    /\ calls = [c \in Carriers |-> NoCalls]
    /\ last_response = [c \in Carriers |-> "none"]
    /\ slept = [c \in Carriers |-> 0]

\* The environment of a behaviour.
Environment(urls, keys, settings, lists, faults, data) ==
    /\ backend_url \in urls
    /\ exchange_rate_api_key \in keys
    /\ \E s \in settings : USE_PREDEFINED_ROUTES = s.flag /\ today = s.today
    /\ registry \in lists
    /\ faultsLeft = faults
    /\ dataLeft = data

NouvelairStep ==
    \/ TriggerNouvelair
    \/ CaptureApiKey
    \/ GetAirportsAttempt(NOUVELAIR)
    \/ NouvelairFetch
    \/ FinishScrape(NOUVELAIR)
    \/ ReportScrapedData(NOUVELAIR)
    \/ PostAttempt(NOUVELAIR)
    \/ JobWrapper(NOUVELAIR)

TunisairStep ==
    \/ TriggerTunisair
    \/ GetAirportsAttempt(TUNISAIR)
    \/ TunisairFetchAttempt
    \/ CallGetExchangeRate
    \/ RateAttempt
    \/ FinishScrape(TUNISAIR)
    \/ ReportScrapedData(TUNISAIR)
    \/ PostAttempt(TUNISAIR)
    \/ JobWrapper(TUNISAIR)

\* The service as uvicorn starts it: lifespan, then both jobs on the
\* background scheduler's threads.
Init ==
    /\ Environment(BackendUrls, {"k3y"}, DynamicSettings,
                   { << Airport("TUN", "TN"), Airport("CDG", "FR"), Airport("FRA", "DE") >> },
                   ServiceFaults, ServiceData)
    /\ app = "starting"
    /\ scheduler = "none"
    /\ jobs = {}
    /\ api_client = [c \in Carriers |-> 0]
    /\ Idle
Next == Startup \/ NouvelairStep \/ TunisairStep
Spec == Init /\ [][Next]_vars

\* One carrier's job on its own, in a richer environment: a run reads and
\* writes only its own thread's locals and its own scraper's fields.
InitRuns ==
    /\ \/ /\ jobs = {NOUVELAIR}
          /\ Environment({"http://backend:8000"}, {"k3y"}, DynamicSettings,
                         AirportLists, MaxFaults, MaxData)
       \/ /\ jobs = {TUNISAIR}
          /\ Environment({"http://backend:8000"}, ApiKeys, DynamicSettings,
                         AirportLists, MaxFaults, MaxData)
       \/ /\ jobs = {TUNISAIR}
          /\ Environment({"http://backend:8000"}, ApiKeys, StaticSettings,
                         {<<>>}, StaticFaults, StaticData)
    /\ app = "serving"
    /\ scheduler = "running"
    /\ api_client = [c \in Carriers |-> 1]
    /\ Idle
NextRuns == NouvelairStep \/ TunisairStep
SpecRuns == InitRuns /\ [][NextRuns]_vars

\* The same under the scheduler's thread pool, where a thread that can take
\* its next step takes it: every sleep and every request with a timeout
\* comes to an end.
FairRuns == InitRuns /\ [][NextRuns]_vars /\ WF_vars(NextRuns)

\* The backend client on its own: get_airports called against a registry
\* without airports, or the end of a run: run() with its batch gathered, or
\* report_scraped_data called with a batch, of each length around the
\* multiples of POST_CHUNK_SIZE.
ReportSizes ==
    {0} \cup { k * POST_CHUNK_SIZE + d :
                 k \in 0 .. MaxChunks - 1, d \in {1, POST_CHUNK_SIZE - 1, POST_CHUNK_SIZE} }

InitReport ==
    /\ Environment({"http://backend:8000"}, {"k3y"}, DynamicSettings, {<<>>},
                   ReportFaults, 0)
    /\ app = "serving"
    /\ scheduler = "running"
    /\ jobs = {TUNISAIR}
    /\ api_client = [c \in Carriers |-> 1]
    /\ \E label \in {"airports", "aggregated", "call_report"} :
          pc = [c \in Carriers |-> IF c = TUNISAIR THEN label ELSE "idle"]
    /\ runs = [c \in Carriers |-> IF c = TUNISAIR THEN 1 ELSE 0]
    /\ job_log = <<>>
    /\ run_outcome = [c \in Carriers |-> "none"]
    /\ raised = [c \in Carriers |-> None]
    /\ api_key = ""
    /\ captured_key = ""
    /\ routes_tn_to_de = <<>>
    /\ conversion_rate = 0
    /\ rate_arg = 0
    /\ search_date = <<>>
    /\ airports = [c \in Carriers |-> <<>>]
    /\ routes = [c \in Carriers |-> <<>>]
    /\ route_i = [c \in Carriers |-> 0]
    /\ window = [c \in Carriers |-> 0]
    /\ attempt = [c \in Carriers |-> 0]
    /\ \E n \in IF pc[TUNISAIR] = "airports" THEN {0} ELSE ReportSizes :
          all_scraped_flights = [c \in Carriers |-> IF c = TUNISAIR THEN Batch(n) ELSE <<>>]
    /\ chunk_i = [c \in Carriers |-> 0]
    /\ last_exception = [c \in Carriers |-> None]
    /\ posted = [c \in Carriers |-> <<>>]
    /\ calls = [c \in Carriers |-> NoCalls]
    /\ last_response = [c \in Carriers |-> "none"]
    /\ slept = [c \in Carriers |-> 0]
NextReport ==
    \/ GetAirportsAttempt(TUNISAIR)
    \/ FinishScrape(TUNISAIR)
    \/ ReportScrapedData(TUNISAIR)
    \/ PostAttempt(TUNISAIR)
    \/ JobWrapper(TUNISAIR)
SpecReport == InitReport /\ [][NextReport]_vars

(***************************************************************************)
(* Properties of report_scraped_data.                                      *)
(***************************************************************************)
RECURSIVE Flatten(_)
Flatten(seqs) == IF seqs = <<>> THEN <<>> ELSE Head(seqs) \o Flatten(Tail(seqs))

CeilDiv(n, d) == (n + d - 1) \div d

\* The call of report_scraped_data in the carrier's thread has returned.
Reported(c) == pc[c] = "returned" /\ run_outcome[c] = "done"

\* C1: when report_scraped_data is called with N records and no POST fails,
\* it has issued, at its return, exactly ceil(N / POST_CHUNK_SIZE) POSTs, each
\* payload has at most POST_CHUNK_SIZE records, and the payloads in the order
\* sent, laid end to end, are the input list.
C1_ChunkedInOrder ==
    \A c \in Carriers :
        (Reported(c) /\ faultsLeft = ReportFaults) =>
            LET N == Len(all_scraped_flights[c])
            IN  /\ calls[c].post = CeilDiv(N, POST_CHUNK_SIZE)
                /\ Len(posted[c]) = CeilDiv(N, POST_CHUNK_SIZE)
                /\ \A j \in 1 .. Len(posted[c]) :
                       Len(posted[c][j]) \in 1 .. POST_CHUNK_SIZE
                /\ Flatten(posted[c]) = all_scraped_flights[c]

\* A batch of several chunks, the last one not full, went out without a
\* failing POST.
C1_Witness ==
    /\ Reported(TUNISAIR)
    /\ faultsLeft = ReportFaults
    /\ Len(all_scraped_flights[TUNISAIR]) > 2 * POST_CHUNK_SIZE
    /\ Len(all_scraped_flights[TUNISAIR]) % POST_CHUNK_SIZE # 0
    /\ Len(posted[TUNISAIR]) = 3

\* The call of report_scraped_data has raised after the retries of the chunk
\* at chunk_i were used up.
ReportRaised(c) == pc[c] = "raised" /\ raised[c].class = RequestException

\* C2: when the chunk at index k fails all REQUEST_RETRIES attempts, the
\* chunks 0 .. k-1 have been accepted (and nothing else), the exception raised
\* is the one of the last attempt, and no POST is issued any more, so none for
\* a later chunk.
C2_RaisesLastAfterPrefix ==
    \A c \in Carriers :
        ReportRaised(c) =>
            LET k == chunk_i[c] \div POST_CHUNK_SIZE
            IN  /\ chunk_i[c] = k * POST_CHUNK_SIZE
                /\ attempt[c] = REQUEST_RETRIES - 1
                /\ posted[c] = [j \in 1 .. k |->
                                  Chunk(all_scraped_flights[c], (j - 1) * POST_CHUNK_SIZE)]
                /\ Flatten(posted[c]) = SubSeq(all_scraped_flights[c], 1, chunk_i[c])
                /\ raised[c] = Exception(RequestException, REQUEST_RETRIES)
                /\ ~ ENABLED PostAttempt(c)

\* The second of three chunks failed three times, after the first was
\* accepted on a retry.
C2_Witness ==
    /\ ReportRaised(TUNISAIR)
    /\ chunk_i[TUNISAIR] = POST_CHUNK_SIZE
    /\ Len(all_scraped_flights[TUNISAIR]) > 2 * POST_CHUNK_SIZE
    /\ Len(posted[TUNISAIR]) = 1
    /\ faultsLeft = ReportFaults - REQUEST_RETRIES - 1

(***************************************************************************)
(* Properties of the records the scrapers hand to the reporting client.    *)
(***************************************************************************)
\* run() has handed its batch to report_scraped_data.
Reporting(c) == pc[c] \in {"call_report", "report"}

\* C3: every record either scraper passes to the reporting client has
\* price > 0.
C3_ReportedPricesPositive ==
    \A c \in Carriers :
        Reporting(c) =>
            \A k \in 1 .. Len(all_scraped_flights[c]) :
                all_scraped_flights[c][k].price > 0

(***************************************************************************)
(* Properties of the Nouvelair credential.                                 *)
(***************************************************************************)
\* The current run's _capture_api_key has returned without a key.
CaptureFailed ==
    /\ pc[NOUVELAIR] \notin {"idle", "capture"}
    /\ captured_key = ""

\* C4: a Nouvelair run whose capture obtains no key aborts: it goes on to no
\* airport fetch, no route fetch and no report, whatever an earlier run
\* captured.
C4_NoKeyRunAborts ==
    CaptureFailed => pc[NOUVELAIR] \in {"returned", "raised"}
                     /\ run_outcome[NOUVELAIR] \in {"aborted", "raised"}

(***************************************************************************)
(* Properties of the jobs on the scheduler's threads.                      *)
(***************************************************************************)
\* The run in c's thread is in a method of its BackendApiClient, which sends
\* on the client's session.
InBackendCall(c) == pc[c] \in {"airports", "call_report", "report"}

\* C5: no two runs executing at the same time use the same backend-facing
\* session: each has a client, and so a session, of its own.
C5_SessionsNotShared ==
    (InBackendCall(NOUVELAIR) /\ InBackendCall(TUNISAIR)) =>
        api_client[NOUVELAIR] # api_client[TUNISAIR]

\* What the thread of c's job holds.
ThreadState(c) ==
    << pc[c], run_outcome[c], raised[c], airports[c], routes[c], route_i[c],
       window[c], attempt[c], all_scraped_flights[c], chunk_i[c],
       last_exception[c], posted[c], calls[c], last_response[c], slept[c] >>

\* The step that ends a job whose run() raised: the wrapper logs FAILED and
\* returns to the scheduler, which still holds both jobs; the other job's
\* thread is untouched, and both jobs are as due as they were.
FailureEnds(c) ==
    (pc[c] = "raised" /\ pc'[c] # "raised") =>
        /\ pc'[c] = "idle"
        /\ job_log' = Append(job_log, [job |-> c, result |-> "FAILED"])
        /\ appVars' = appVars
        /\ runs' = runs
        /\ ThreadState(Other(c))' = ThreadState(Other(c))
        /\ Due(Other(c))' = Due(Other(c))
        /\ (runs[c] < MaxRuns /\ runs[NOUVELAIR] + runs[TUNISAIR] < MaxTriggers)
               => Due(c)'

\* C6: an exception out of a carrier's run() is caught by that job's wrapper
\* and logged as FAILED; the scheduler keeps running with both jobs, the other
\* carrier's run goes on untouched, later jobs of either carrier stay due, and
\* the application keeps serving.
C6_FailureContained ==
    /\ [](\A c \in Carriers : pc[c] = "raised" => ENABLED JobWrapper(c))
    /\ []((app = "serving" /\ backend_url # "") =>
              (scheduler = "running" /\ jobs = Carriers))
    /\ [][\A c \in Carriers : FailureEnds(c)]_vars

\* The Nouvelair job failed, and the Tunisair job finished after that.
C6_Witness ==
    /\ Len(job_log) = 2
    /\ job_log[1] = [job |-> NOUVELAIR, result |-> "FAILED"]
    /\ job_log[2] = [job |-> TUNISAIR, result |-> "finished"]
    /\ app = "serving"
    /\ scheduler = "running"

(***************************************************************************)
(* Properties of the route loops.                                          *)
(***************************************************************************)
FetchLabels == {"fetch", "scrape_de", "scrape_tn"}

\* The step in which the fetch of c's current route (Nouvelair) or of the
\* current search date of the route (Tunisair) fails for good: the GET, or
\* the last of its attempts, ends in a RequestException.
FetchGivenUp(c) ==
    /\ pc[c] \in FetchLabels
    /\ ThreadState(c)' # ThreadState(c)
    /\ last_response'[c] = RequestException
    /\ c = TUNISAIR => attempt[c] = TUNISAIR_REQUEST_RETRIES - 1

\* The loop position after the current one.
Advanced(c) ==
    IF c = NOUVELAIR
    THEN route_i'[c] = route_i[c] + 1
    ELSE IF window[c] + 1 < MONTHS_TO_SEARCH
         THEN route_i'[c] = route_i[c] /\ window'[c] = window[c] + 1
         ELSE route_i'[c] = route_i[c] + 1 /\ window'[c] = 0

\* A given-up fetch adds no record and ends neither the run nor the loop.
SkipsAndGoesOn(c) ==
    FetchGivenUp(c) =>
        /\ all_scraped_flights'[c] = all_scraped_flights[c]
        /\ Advanced(c)
        /\ IF route_i'[c] < Len(routes[c])
           THEN pc'[c] = pc[c]
           ELSE pc'[c] = (IF pc[c] = "scrape_de" THEN "lookup" ELSE "aggregated")
        /\ routes'[c] = routes[c]

\* While a run scrapes, what it has gathered is kept, and it is handed over
\* whole to the reporting client.
KeepsGathered(c) ==
    (pc[c] \in FetchLabels \cup {"lookup", "rate", "aggregated", "call_report", "report"}
     /\ pc'[c] # "idle") =>
        /\ Len(all_scraped_flights'[c]) >= Len(all_scraped_flights[c])
        /\ SubSeq(all_scraped_flights'[c], 1, Len(all_scraped_flights[c]))
               = all_scraped_flights[c]
        /\ (pc[c] = "aggregated" /\ all_scraped_flights[c] # <<>>)
               => pc'[c] \in {"aggregated", "call_report"}

\* C7: a route, or a Tunisair search date of a route, whose fetch fails after
\* its attempts adds no record and does not abort the run; the loop goes on
\* to every remaining route, and what the other fetches yielded is reported.
C7_FailedFetchSkipped ==
    /\ [][\A c \in Carriers : SkipsAndGoesOn(c) /\ KeepsGathered(c)]_vars
    /\ [](\A c \in Carriers :
            /\ pc[c] \in {"lookup", "aggregated"} => route_i[c] = Len(routes[c])
            /\ Reported(c) => Flatten(posted[c]) = all_scraped_flights[c])

\* The second search date of a Tunisair route has just been given up after
\* three failed attempts; the records of the first are kept and the third
\* is next.
C7_Witness ==
    /\ pc[TUNISAIR] = "scrape_de"
    /\ last_response[TUNISAIR] = RequestException
    /\ attempt[TUNISAIR] = 0
    /\ slept[TUNISAIR] = 500
    /\ window[TUNISAIR] = 2
    /\ all_scraped_flights[TUNISAIR] # <<>>

(***************************************************************************)
(* Properties of the exchange rate.                                        *)
(***************************************************************************)
\* C8: _get_exchange_rate never raises: whatever the rate service answers,
\* the call ends with a rate and the run goes on.
C8_RateLookupNeverRaises ==
    [][pc[TUNISAIR] \in {"lookup", "rate"} => pc'[TUNISAIR] # "raised"]_vars

\* The lookup of the current Tunisair run has returned.
RateReturned == pc[TUNISAIR] \in {"scrape_tn", "aggregated", "call_report", "report"}

\* C9: without a valid credential (empty, or the placeholder) the lookup
\* returns the fallback rate and no request goes to the rate service, in
\* every run.
C9_NoKeyNoRequest ==
    exchange_rate_api_key \in {"", "YOUR_API_KEY"} =>
        /\ pc[TUNISAIR] # "rate"
        /\ calls[TUNISAIR].rate = 0
        /\ RateReturned => /\ calls[TUNISAIR].lookup = 1
                           /\ conversion_rate = fallback_eur_rate

\* The second run with the placeholder as key is past its lookup.
C9_Witness ==
    /\ exchange_rate_api_key = "YOUR_API_KEY"
    /\ runs[TUNISAIR] = 2
    /\ pc[TUNISAIR] = "scrape_tn"
    /\ calls[TUNISAIR].lookup = 1
    /\ calls[TUNISAIR].rate = 0
    /\ conversion_rate = fallback_eur_rate

\* The records of the current Tunisair run that come from a TND route.
IsTndRecord(r) ==
    \E k \in 1 .. Len(routes_tn_to_de) :
        routes_tn_to_de[k] = <<r.departureAirportCode, r.arrivalAirportCode>>

\* C10: a Tunisair run calls _get_exchange_rate at most once; the value it
\* returned is the rate of every TND route's fetch and of every converted
\* record of the run; before the run's own lookup there is no rate.
C10_OneRatePerRun ==
    /\ calls[TUNISAIR].lookup <= 1
    /\ pc[TUNISAIR] \in {"airports", "scrape_de", "lookup", "rate"} =>
           /\ conversion_rate = 0
           /\ calls[TUNISAIR].lookup = (IF pc[TUNISAIR] = "rate" THEN 1 ELSE 0)
    /\ RateReturned =>
           /\ calls[TUNISAIR].lookup = 1
           /\ pc[TUNISAIR] = "scrape_tn" => rate_arg = conversion_rate
           /\ \A k \in 1 .. Len(all_scraped_flights[TUNISAIR]) :
                  LET r == all_scraped_flights[TUNISAIR][k]
                  IN  IsTndRecord(r) => r.priceEur = ConvertRound2(r.price, conversion_rate)

\* The second run of the job has converted a TND fare with the rate the
\* service gave it.
C10_Witness ==
    /\ runs[TUNISAIR] = 2
    /\ RateReturned
    /\ conversion_rate \notin {0, fallback_eur_rate}
    /\ calls[TUNISAIR].rate >= 1
    /\ \E k \in 1 .. Len(all_scraped_flights[TUNISAIR]) :
           /\ IsTndRecord(all_scraped_flights[TUNISAIR][k])
           /\ all_scraped_flights[TUNISAIR][k].price > 0

(***************************************************************************)
(* Properties of the route enumeration.                                    *)
(***************************************************************************)
Range(s) == { s[k] : k \in 1 .. Len(s) }

\* The codes of the airports of a country in the registry's answer.
CodeSet(list, country) == { a.code : a \in { b \in Range(list) : b.country = country } }

\* Every directed pair of a Tunisian and a German airport of the answer.
ExpectedPairs(list) ==
    (CodeSet(list, "TN") \X CodeSet(list, "DE")) \cup
    (CodeSet(list, "DE") \X CodeSet(list, "TN"))

\* c's run has enumerated its routes from the airports it was given.
Enumerated(c) ==
    IF c = NOUVELAIR
    THEN pc[c] \in {"fetch", "aggregated", "call_report", "report"}
    ELSE ~use_predefined /\ pc[c] \in {"scrape_de", "lookup", "rate", "scrape_tn",
                                       "aggregated", "call_report", "report"}

\* The routes c's run has enumerated: Nouvelair's one list; Tunisair's
\* German-origin list (the loop it is in first) and its Tunisian-origin list.
RoutesOf(c) ==
    IF c = NOUVELAIR THEN Range(routes[c])
    ELSE (IF pc[c] = "scrape_de" THEN Range(routes[c])
          ELSE CodeSet(airports[c], "DE") \X CodeSet(airports[c], "TN"))
         \cup Range(routes_tn_to_de)

\* C11: in dynamic mode the routes of a run are exactly the pairs (TN x DE)
\* and (DE x TN) of the airports the registry returned, each direction a
\* route of its own, none twice; the loops leave none of them out.
C11_RoutesAreBothProducts ==
    \A c \in Carriers :
        Enumerated(c) =>
            /\ RoutesOf(c) = ExpectedPairs(airports[c])
            /\ \A r \in RoutesOf(c) : <<r[2], r[1]>> \in RoutesOf(c)
            /\ Cardinality(Range(routes[c])) = Len(routes[c])
            /\ c = TUNISAIR =>
                   /\ Range(routes_tn_to_de) =
                          CodeSet(airports[c], "TN") \X CodeSet(airports[c], "DE")
                   /\ Cardinality(Range(routes_tn_to_de)) = Len(routes_tn_to_de)
                   /\ pc[c] = "scrape_de" =>
                          Range(routes[c]) =
                              CodeSet(airports[c], "DE") \X CodeSet(airports[c], "TN")
                   /\ pc[c] \in {"scrape_tn", "aggregated", "call_report", "report"} =>
                          routes[c] = routes_tn_to_de
            /\ pc[c] \in {"lookup", "aggregated"} => route_i[c] = Len(routes[c])

\* The Nouvelair run given TUN (TN), FRA and MUC (DE) has gone through
\* exactly the four pairs.
C11_Witness ==
    /\ airports[NOUVELAIR] = << Airport("TUN", "TN"), Airport("FRA", "DE"),
                                Airport("MUC", "DE") >>
    /\ pc[NOUVELAIR] = "aggregated"
    /\ route_i[NOUVELAIR] = 4
    /\ Range(routes[NOUVELAIR]) = { <<"TUN", "FRA">>, <<"TUN", "MUC">>,
                                    <<"FRA", "TUN">>, <<"MUC", "TUN">> }

\* get_airports has returned to c's run (dynamic routes) and gave it nothing
\* to pair: no airport, or none of one of the two countries.
NothingToPair(c) ==
    /\ pc[c] \notin {"idle", "capture", "airports"}
    /\ last_response[c] \in {"ok", RequestException}
    /\ c = TUNISAIR => ~use_predefined
    /\ \/ airports[c] = <<>>
       \/ CodeSet(airports[c], "TN") = {}
       \/ CodeSet(airports[c], "DE") = {}

RequestLabels == {"airports", "report", "rate", "fetch", "scrape_de", "scrape_tn"}

\* The step in which a request of c fails with a transport error or a
\* non-2xx status.
RequestFails(c) ==
    /\ pc[c] \in RequestLabels
    /\ ThreadState(c)' # ThreadState(c)
    /\ last_response'[c] = RequestException

\* The same request is made again: same label, same route, search date and
\* chunk, next attempt.
TriedAgain(c) ==
    /\ pc'[c] = pc[c]
    /\ attempt'[c] = attempt[c] + 1
    /\ <<route_i[c], window[c], chunk_i[c]>>' = <<route_i[c], window[c], chunk_i[c]>>

\* C13: every kind of request is attempted up to three times: a failure of
\* the first or the second attempt is followed by another attempt, and only
\* the third failure ends the operation.
C13_ThreeAttemptsEverywhere ==
    [][\A c \in Carriers :
          RequestFails(c) =>
              /\ attempt[c] < REQUEST_RETRIES - 1 => TriedAgain(c)
              /\ attempt[c] >= REQUEST_RETRIES - 1 => ~TriedAgain(c)]_vars

(***************************************************************************)
(* Properties of a run without records.                                    *)
(***************************************************************************)
\* The step that takes c past the end of its scraping, or into
\* report_scraped_data, with an empty list.
EmptyHanded(c) ==
    /\ pc[c] \in {"aggregated", "call_report"}
    /\ all_scraped_flights[c] = <<>>
    /\ pc'[c] # pc[c]

\* C14: report_scraped_data called with an empty sequence returns without a
\* POST, and so does a run that gathered no record: it sends nothing to the
\* reporting endpoint, ends without an exception, and its job is logged as
\* finished.
C14_EmptyBatchNoPost ==
    /\ [][\A c \in Carriers :
            /\ EmptyHanded(c) =>
                   /\ pc'[c] = "returned"
                   /\ run_outcome'[c] = "done"
                   /\ calls'[c].post = 0
                   /\ posted'[c] = <<>>
            /\ (pc[c] = "returned" /\ pc'[c] # "returned") =>
                   job_log' = Append(job_log, [job |-> c, result |-> "finished"])]_vars
    /\ [](\A c \in Carriers :
            (pc[c] # "idle" /\ all_scraped_flights[c] = <<>>) =>
                /\ pc[c] \notin {"report", "raised"}
                /\ calls[c].post = 0
                /\ posted[c] = <<>>)

\* With an empty list, run() has ended, or report_scraped_data has returned,
\* and no POST was made.
C14_Witness ==
    /\ pc[TUNISAIR] = "returned"
    /\ run_outcome[TUNISAIR] = "done"
    /\ all_scraped_flights[TUNISAIR] = <<>>
    /\ calls[TUNISAIR].post = 0
    /\ faultsLeft = ReportFaults

(***************************************************************************)
(* Properties of the application without a backend URL.                    *)
(***************************************************************************)
\* Nothing of the scraping exists or has happened: no client is held by a
\* scraper, no scheduler and no job, no run, no request answered.
NoScraping ==
    /\ api_client = [c \in Carriers |-> 0]
    /\ scheduler = "none"
    /\ jobs = {}
    /\ \A c \in Carriers :
          /\ pc[c] = "idle"
          /\ runs[c] = 0
          /\ calls[c] = NoCalls
          /\ last_response[c] = "none"
          /\ ~ Due(c)
    /\ job_log = <<>>
    /\ faultsLeft = ServiceFaults
    /\ dataLeft = ServiceData

\* C15: without MAIN_BACKEND_URL the application starts and goes on serving
\* (GET /ping answers pong), and there is no scraping for as long as it
\* lives: no client, no scheduled job, no request.
C15_NoUrlNoScraping ==
    /\ [](backend_url = "" =>
            /\ NoScraping
            /\ app = "starting" => ENABLED Startup
            /\ app = "serving" => ping = [message |-> "pong"])
    /\ [][app = "serving" => app' = "serving"]_vars

\* The application serves without a backend URL.
C15_Witness ==
    /\ backend_url = ""
    /\ app = "serving"
    /\ scheduler = "none"

(***************************************************************************)
(* Properties of the backend client's delays.                              *)
(***************************************************************************)
\* The step in which a request of the backend client is answered.
ClientRequest(c) ==
    /\ pc[c] \in {"airports", "report"}
    /\ ThreadState(c)' # ThreadState(c)

\* C16: in get_airports and in each chunk's POST loop the sleep after the
\* i-th failed attempt is 2 * i seconds for i = 1, 2 and none after the third;
\* the one-second pause comes only after an accepted chunk that has a chunk
\* after it.
C16_LinearBackoffAndPause ==
    [][\A c \in Carriers :
          ClientRequest(c) =>
              LET i == attempt[c] + 1
              IN  IF last_response'[c] = RequestException
                  THEN slept'[c] = (IF i < REQUEST_RETRIES THEN 2000 * i ELSE 0)
                  ELSE IF pc[c] = "report"
                  THEN slept'[c] =
                           (IF chunk_i[c] + POST_CHUNK_SIZE < Len(all_scraped_flights[c])
                            THEN 1000 ELSE 0)
                  ELSE slept'[c] = 0]_vars

\* The second attempt for the second chunk has failed, and the thread has
\* slept four seconds.
C16_Witness ==
    /\ pc[TUNISAIR] = "report"
    /\ chunk_i[TUNISAIR] = POST_CHUNK_SIZE
    /\ attempt[TUNISAIR] = 2
    /\ last_response[TUNISAIR] = RequestException
    /\ slept[TUNISAIR] = 4000

(***************************************************************************)
(* Properties of the POSTs of one call of report_scraped_data.             *)
(***************************************************************************)
\* The chunks of c's batch that were accepted are its first ones, each once.
AcceptedInOrder(c) ==
    posted[c] = [j \in 1 .. Len(posted[c]) |->
                    Chunk(all_scraped_flights[c], (j - 1) * POST_CHUNK_SIZE)]

\* C17: within one call each chunk gets at most REQUEST_RETRIES POSTs and at
\* most one accepted POST; the chunk being POSTed is always the one after the
\* accepted ones; a call that returns normally has made between ceil(N/C)
\* and 3 * ceil(N/C) POSTs.
C17_AtMostOncePerChunk ==
    \A c \in Carriers :
        /\ pc[c] \in {"report", "returned", "raised"} => AcceptedInOrder(c)
        /\ pc[c] = "report" =>
               /\ attempt[c] < REQUEST_RETRIES
               /\ chunk_i[c] = Len(posted[c]) * POST_CHUNK_SIZE
               /\ chunk_i[c] < Len(all_scraped_flights[c])
               /\ calls[c].post >= Len(posted[c]) + attempt[c]
               /\ calls[c].post <= REQUEST_RETRIES * Len(posted[c]) + attempt[c]
        /\ Reported(c) =>
               LET chunks == CeilDiv(Len(all_scraped_flights[c]), POST_CHUNK_SIZE)
               IN  /\ Len(posted[c]) = chunks
                   /\ calls[c].post >= chunks
                   /\ calls[c].post <= REQUEST_RETRIES * chunks

\* Two chunks, each accepted on its third POST: six POSTs in all.
C17_Witness ==
    /\ Reported(TUNISAIR)
    /\ Len(posted[TUNISAIR]) = 2
    /\ calls[TUNISAIR].post = 2 * REQUEST_RETRIES

(***************************************************************************)
(* Properties of the order of a run's phases.                              *)
(***************************************************************************)
\* The labels of the fetching phase: the route loops and, for Tunisair, the
\* rate lookup between its two loops.
FetchingLabels == FetchLabels \cup {"lookup", "rate"}

\* c's run is in its reporting phase.
InReport(c) == pc[c] \in {"call_report", "report"}

\* C18: a run reports only after its last route was fetched or given up, and
\* it is ended early (aborted, or failed by an exception) only while it
\* acquires its credential or the airports or by a report that cannot be
\* delivered, never from its fetching phase.
C18_PhasesInOrder ==
    /\ [](\A c \in Carriers :
            (InReport(c) \/ calls[c].post > 0) =>
                /\ route_i[c] = Len(routes[c])
                /\ c = TUNISAIR => routes[c] = routes_tn_to_de)
    /\ [][\A c \in Carriers :
            pc[c] \in FetchingLabels =>
                /\ pc'[c] # "raised"
                /\ pc'[c] = "returned" => run_outcome'[c] = "done"
                /\ pc'[c] \in FetchingLabels \cup {"aggregated"}]_vars

(***************************************************************************)
(* Properties of the search dates of _scrape_route.                        *)
(***************************************************************************)
ScrapeLabels == {"scrape_de", "scrape_tn"}

\* The date a route is searched from in its window w: the current date
\* itself, then the first day of the w-th month after the current one.
WindowDate(w) ==
    IF w = 0 THEN today
    ELSE <<today[1] + (today[2] - 1 + w) \div 12, ((today[2] - 1 + w) % 12) + 1, 1>>

\* C19: _scrape_route queries a route for exactly MONTHS_TO_SEARCH = 4 search
\* dates in order, the current date and then the first day of each of the
\* three following months; a search date gets at most three GETs, which stop
\* at the first one answered (so a route gets at most twelve), and the next
\* search date is queried whether the one before was answered or given up.
C19_FourWindowsThreeAttempts ==
    /\ MONTHS_TO_SEARCH = 4
    /\ [](pc[TUNISAIR] \in ScrapeLabels =>
            /\ window[TUNISAIR] \in 0 .. MONTHS_TO_SEARCH - 1
            /\ attempt[TUNISAIR] \in 0 .. 2
            /\ window[TUNISAIR] * 3 + attempt[TUNISAIR] < 12)
    /\ [][(pc[TUNISAIR] \notin ScrapeLabels /\ pc'[TUNISAIR] \in ScrapeLabels) =>
              window'[TUNISAIR] = 0 /\ attempt'[TUNISAIR] = 0]_vars
    /\ [][pc[TUNISAIR] \in ScrapeLabels =>
            /\ Len(search_date') = 10
            /\ Strptime(search_date').ok
            /\ Strptime(search_date').date = WindowDate(window[TUNISAIR])
            /\ last_response'[TUNISAIR] = "ok" =>
                   attempt'[TUNISAIR] = 0 /\ Advanced(TUNISAIR)
            /\ last_response'[TUNISAIR] = RequestException =>
                   IF attempt[TUNISAIR] < 2
                   THEN /\ attempt'[TUNISAIR] = attempt[TUNISAIR] + 1
                        /\ window'[TUNISAIR] = window[TUNISAIR]
                        /\ route_i'[TUNISAIR] = route_i[TUNISAIR]
                        /\ pc'[TUNISAIR] = pc[TUNISAIR]
                   ELSE attempt'[TUNISAIR] = 0 /\ Advanced(TUNISAIR)]_vars

\* On 15 November 2025 the third search date, 1 January 2026, was given up
\* after its third GET, and the route's fourth search date is next.
C19_Witness ==
    /\ pc[TUNISAIR] \in ScrapeLabels
    /\ today = <<2025, 11, 15>>
    /\ window[TUNISAIR] = 3
    /\ attempt[TUNISAIR] = 0
    /\ last_response[TUNISAIR] = RequestException
    /\ search_date = <<"2", "0", "2", "6", "-", "0", "1", "-", "0", "1">>

(***************************************************************************)
(* Properties of the aggregation of a run's records.                       *)
(***************************************************************************)
\* The routes of c's run in the order run() enumerates them.
RouteOrder(c) ==
    IF c = NOUVELAIR THEN routes[c]
    ELSE IF use_predefined THEN VALID_ROUTES_DE_TO_TN \o VALID_ROUTES_TN_TO_DE
    ELSE [k \in 1 .. Len(routes_tn_to_de) |->
             <<routes_tn_to_de[k][2], routes_tn_to_de[k][1]>>] \o routes_tn_to_de

\* The place of a record's route in an order of routes (0: not among them).
RoutePlace(order, rec) ==
    LET route == <<rec.departureAirportCode, rec.arrivalAirportCode>>
        at == { k \in 1 .. Len(order) : order[k] = route }
    IN  IF at = {} THEN 0 ELSE CHOOSE k \in at : \A l \in at : k <= l

\* The routes c's run has begun to fetch, counted in that order.
RoutesBegun(c) ==
    IF c = TUNISAIR /\ pc[c] \in {"scrape_tn", "aggregated", "call_report", "report"}
    THEN Len(routes_tn_to_de) + (IF route_i[c] < Len(routes[c]) THEN route_i[c] + 1 ELSE route_i[c])
    ELSE IF c = TUNISAIR /\ pc[c] \in {"lookup", "rate"}
    THEN Len(routes[c])
    ELSE IF route_i[c] < Len(routes[c]) THEN route_i[c] + 1 ELSE route_i[c]

\* The records that c's fetch of its current route extracts from an answer
\* with fares (fares = TRUE) or from one without.
Extractions(c, fares) ==
    LET route == routes[c][route_i[c] + 1]
    IN  IF c = NOUVELAIR
        THEN { NouvelairRecords(d, route[1], route[2]) :
                 d \in IF fares THEN NouvelairData ELSE {<<>>} }
        ELSE { TagFlights(_extract_prices(v, pc[c] = "scrape_de", rate_arg),
                          route[1], route[2]) :
                 v \in IF fares THEN TunisairViews ELSE {NoCellsView} }

\* The records of c's batch lie in the order of their routes, and all belong
\* to routes the run has begun to fetch.
InRouteOrder(c) ==
    LET n == Len(all_scraped_flights[c])
        order == RouteOrder(c)
        place == [i \in 1 .. n |-> RoutePlace(order, all_scraped_flights[c][i])]
    IN  \A i \in 1 .. n :
            /\ place[i] \in 1 .. RoutesBegun(c)
            /\ i < n => place[i] <= place[i + 1]

\* C20: the batch of a run is the concatenation, in route enumeration order
\* (per route in window order, per window in extraction order), of every
\* record extracted by every answered fetch, so its length is the sum of the
\* per-fetch counts: nothing is removed as a duplicate and nothing is
\* reordered, and records of one route and date from two windows all appear.
C20_BatchIsConcatenation ==
    /\ [](\A c \in Carriers :
            pc[c] \in FetchingLabels \cup {"aggregated", "call_report", "report"} =>
                InRouteOrder(c))
    /\ [][\A c \in Carriers :
            /\ (pc[c] \in FetchLabels /\ last_response'[c] = "ok"
                /\ ThreadState(c)' # ThreadState(c)) =>
                   \E more \in Extractions(c, dataLeft' # dataLeft) :
                       /\ all_scraped_flights'[c] = all_scraped_flights[c] \o more
                       /\ Len(all_scraped_flights'[c])
                              = Len(all_scraped_flights[c]) + Len(more)
            /\ (pc[c] \in FetchingLabels \cup {"aggregated", "call_report", "report"}
                /\ pc'[c] # "idle"
                /\ ~(pc[c] \in FetchLabels /\ last_response'[c] = "ok")) =>
                   all_scraped_flights'[c] = all_scraped_flights[c]]_vars

\* A Tunisair run has reported a batch that holds the records of one route
\* twice over, from two search dates that were answered the same fares.
C20_Witness ==
    /\ Reported(TUNISAIR)
    /\ Flatten(posted[TUNISAIR]) = all_scraped_flights[TUNISAIR]
    /\ \E n \in 1 .. Len(all_scraped_flights[TUNISAIR]) :
           /\ Len(all_scraped_flights[TUNISAIR]) = 2 * n
           /\ SubSeq(all_scraped_flights[TUNISAIR], 1, n)
                  = SubSeq(all_scraped_flights[TUNISAIR], n + 1, 2 * n)

(***************************************************************************)
(* Properties of the reported amounts.                                     *)
(***************************************************************************)
\* An amount in thousandths that is a whole number of cents.
InCents(amount) == amount % 10 = 0

\* Every record the backend accepted from c's run has a priceEur of two
\* decimal places.
PriceEurInCents(c) ==
    \A j \in 1 .. Len(posted[c]) : \A i \in 1 .. Len(posted[c][j]) :
        InCents(posted[c][j][i].priceEur)

\* C21: the priceEur of every fare record reported by either carrier is
\* rounded to two decimal places, whatever the source currency and however
\* many decimal places the source price has, Nouvelair's records included.
C21_PriceEurRounded == \A c \in Carriers : PriceEurInCents(c)

(***************************************************************************)
(* Termination of a run.                                                   *)
(***************************************************************************)
\* run() of c's scraper has been called and has neither returned nor raised.
Running(c) == pc[c] \notin {"idle", "returned", "raised"}

\* run() has ended: done or aborted (returned), or failed (raised).
Ended(c) == pc[c] \in {"returned", "raised"}

\* The retry loops of c's run stay within their numbers of requests.
RequestsBounded(c) ==
    /\ pc[c] = "airports" => attempt[c] < REQUEST_RETRIES
    /\ pc[c] = "rate" => attempt[c] < TUNISAIR_REQUEST_RETRIES
    /\ calls[c].rate <= TUNISAIR_REQUEST_RETRIES
    /\ pc[c] \in {"scrape_de", "scrape_tn"} => attempt[c] < TUNISAIR_REQUEST_RETRIES
    /\ pc[c] = "report" => attempt[c] < REQUEST_RETRIES
    /\ calls[c].post
           <= REQUEST_RETRIES * CeilDiv(Len(all_scraped_flights[c]), POST_CHUNK_SIZE)

\* C22: every carrier run terminates: whatever the airports and whatever
\* fails upstream or at the backend, a run that has started reaches done,
\* aborted or failed, after at most 3 requests per airport fetch, 3 for the
\* rate lookup, 3 per Tunisair search date and 3 * ceil(N / C) POSTs.
C22_RunsTerminate ==
    /\ [](\A c \in Carriers : RequestsBounded(c))
    /\ \A c \in Carriers : Running(c) ~> Ended(c)

(***************************************************************************)
(* Properties of the two fetch modes of a Tunisair run.                    *)
(***************************************************************************)
\* The airport codes of a country as the run knows them: the registry's
\* answer, or in static mode the airports of the predefined routes.
CodesIn(country) ==
    IF use_predefined
    THEN (IF country = "DE" THEN {"MUC", "FRA", "DUS"} ELSE {"TUN", "MIR", "DJE"})
    ELSE CodeSet(airports[TUNISAIR], country)

\* The routes of the run that start in a country.
RoutesFrom(country) ==
    { r \in Range(RouteOrder(TUNISAIR)) : r[1] \in CodesIn(country) }

\* The run is in its loop over a route list, or past both loops.
InTunisairRun ==
    pc[TUNISAIR] \in {"scrape_de", "lookup", "rate", "scrape_tn",
                      "aggregated", "call_report", "report"}

\* The loop the run is in fetches exactly the routes of one origin country,
\* in that country's mode; the rate is looked up between the two loops.
ModeMatchesOrigin ==
    /\ pc[TUNISAIR] = "scrape_de" =>
           /\ Range(routes[TUNISAIR]) = RoutesFrom("DE")
           /\ rate_arg = 10000
           /\ calls[TUNISAIR].lookup = 0
    /\ pc[TUNISAIR] \in {"lookup", "rate"} =>
           /\ Range(routes[TUNISAIR]) = RoutesFrom("DE")
           /\ route_i[TUNISAIR] = Len(routes[TUNISAIR])
    /\ pc[TUNISAIR] = "scrape_tn" =>
           /\ Range(routes[TUNISAIR]) = RoutesFrom("TN")
           /\ rate_arg = conversion_rate
           /\ calls[TUNISAIR].lookup = 1

\* A record of the run as its route's mode makes it.
RecordMatchesOrigin(r) ==
    /\ r.airlineCode = "TU"
    /\ <<r.departureAirportCode, r.arrivalAirportCode>> \in Range(RouteOrder(TUNISAIR))
    /\ r.departureAirportCode \in CodesIn("DE") => r.priceEur = r.price
    /\ r.departureAirportCode \in CodesIn("TN") =>
           /\ calls[TUNISAIR].lookup = 1
           /\ r.priceEur = RoundDiv(r.price * conversion_rate, 100000) * 10

\* The records a fetch step adds carry the codes of the route fetched.
TaggedWithRoute ==
    pc[TUNISAIR] \in ScrapeLabels =>
        \A k \in Len(all_scraped_flights[TUNISAIR]) + 1 .. Len(all_scraped_flights'[TUNISAIR]) :
            /\ all_scraped_flights'[TUNISAIR][k].departureAirportCode
                   = routes[TUNISAIR][route_i[TUNISAIR] + 1][1]
            /\ all_scraped_flights'[TUNISAIR][k].arrivalAirportCode
                   = routes[TUNISAIR][route_i[TUNISAIR] + 1][2]
            /\ all_scraped_flights'[TUNISAIR][k].airlineCode = "TU"

\* C23: in a Tunisair run every route of German origin is fetched EUR-native
\* with factor 1 (priceEur = price) and every route of Tunisian origin in TND
\* mode with the run's exchange rate; all EUR-native routes are scraped
\* before the rate is looked up and all TND routes after it; every record
\* carries its route's origin and destination codes and airline code "TU".
C23_ModeByOrigin ==
    /\ [](InTunisairRun =>
            /\ ModeMatchesOrigin
            /\ \A k \in 1 .. Len(all_scraped_flights[TUNISAIR]) :
                   RecordMatchesOrigin(all_scraped_flights[TUNISAIR][k]))
    /\ [][TaggedWithRoute]_vars
    /\ [][pc[TUNISAIR] \in {"lookup", "rate", "scrape_tn"} =>
              pc'[TUNISAIR] # "scrape_de"]_vars

\* A run has reported a fare of a German-origin route as it was quoted and a
\* fare of a Tunisian-origin route converted with the rate of the service.
C23_Witness ==
    /\ Reported(TUNISAIR)
    /\ conversion_rate \notin {0, fallback_eur_rate}
    /\ \E j, k \in 1 .. Len(all_scraped_flights[TUNISAIR]) :
           /\ all_scraped_flights[TUNISAIR][j].departureAirportCode \in CodesIn("DE")
           /\ all_scraped_flights[TUNISAIR][j].priceEur = all_scraped_flights[TUNISAIR][j].price
           /\ all_scraped_flights[TUNISAIR][k].departureAirportCode \in CodesIn("TN")
           /\ all_scraped_flights[TUNISAIR][k].priceEur # all_scraped_flights[TUNISAIR][k].price
           /\ Flatten(posted[TUNISAIR]) = all_scraped_flights[TUNISAIR]

(***************************************************************************)
(* Properties of a Tunisair run on the predefined routes.                  *)
(***************************************************************************)
\* USE_PREDEFINED_ROUTES is true, or unset and so true by default.
StaticMode ==
    \/ ~USE_PREDEFINED_ROUTES.set
    \/ USE_PREDEFINED_ROUTES.value \in { <<"t", "r", "u", "e">>, <<"T", "r", "u", "e">>,
                                         <<"1">>, <<"y", "e", "s">> }

\* The routes of the loop the run is in or has left last.
CurrentLoopIsOneOfTwoSixes ==
    /\ Len(routes[TUNISAIR]) = 6
    /\ Len(routes_tn_to_de) = 6
    /\ Cardinality(Range(routes[TUNISAIR]) \cup Range(routes_tn_to_de))
           = (IF routes[TUNISAIR] = routes_tn_to_de THEN 6 ELSE 12)
    /\ pc[TUNISAIR] \in {"scrape_de", "lookup", "rate"} =>
           routes[TUNISAIR] # routes_tn_to_de
    /\ pc[TUNISAIR] \in {"scrape_tn", "aggregated", "call_report", "report"} =>
           routes[TUNISAIR] = routes_tn_to_de

\* C24: in static mode (USE_PREDEFINED_ROUTES true, which is the default) a
\* Tunisair run never asks the backend for the airports, goes through
\* exactly the 12 predefined directional routes (6 from Germany, then 6 from
\* Tunisia) and so cannot abort before it reports; the only requests it
\* sends to the backend are the POSTs of the report.
C24_StaticRunNeedsNoRegistry ==
    StaticMode =>
        /\ pc[TUNISAIR] # "airports"
        /\ airports[TUNISAIR] = <<>>
        /\ run_outcome[TUNISAIR] # "aborted"
        /\ InTunisairRun => CurrentLoopIsOneOfTwoSixes
        /\ pc[TUNISAIR] \in {"aggregated", "call_report", "report"} =>
               route_i[TUNISAIR] = 6
        /\ calls[TUNISAIR].post > 0 =>
               /\ pc[TUNISAIR] \in {"report", "returned", "raised"}
               /\ route_i[TUNISAIR] = 6

\* With the variable unset a run has gone through both lists and has
\* reported what it found.
C24_Witness ==
    /\ ~USE_PREDEFINED_ROUTES.set
    /\ Reported(TUNISAIR)
    /\ route_i[TUNISAIR] = 6
    /\ routes[TUNISAIR] = routes_tn_to_de
    /\ calls[TUNISAIR].post > 0
    /\ posted[TUNISAIR] # <<>>

====
